---- MODULE Spec2Model ----
(***************************************************************************)
(* Model of yellowstone-grpc-json: the ingestion pipeline of main.rs       *)
(* (the stream loop of main, the bounded mpsc channel, the spawned         *)
(* transaction_processor) and the metrics reporter of metrics.rs.          *)
(*                                                                         *)
(* Every await of the source is a point where the other tasks may run, so  *)
(* each loop is cut into one action per await.                             *)
(***************************************************************************)
EXTENDS Integers, Sequences, FiniteSets, TLC

VARIABLES
    now,              \* the monotonic clock, in seconds
    last_slot_check,  \* main.rs:113 `last_slot_check`
    dPc,              \* where main is: "build" | "subscribe" | "recv" | "sample" | "send" | "shutdown" | "join" | "returned"
    dHeld,            \* the Transaction/BlockMeta update main holds between stream.next() and send()
    nRead,            \* how many items stream.next() has yielded so far
    eos,              \* stream.next() has yielded None
    queue,            \* the messages in the mpsc channel, oldest first
    rxOpen,           \* the Receiver has not been dropped
    wPc,              \* where transaction_processor is: "unspawned" | "recv" | "publishing" | "done"
    bus,              \* the records producer.send was called with, in call order
    exitCode,         \* NoExit while the process runs, then its exit status
    tbItems,          \* history: the Transaction/BlockMeta items read from upstream
    failedId,         \* history: the id of the record whose producer.send failed, 0 if none
    skipped,          \* history: ids of the messages the worker dequeued without publishing
    shutdownsSent,    \* history: how many times Shutdown was placed on the queue
    watermarks,       \* main.rs:125-127 what the get_slot calls of the lag sample under way
                      \* returned (TRUE for Ok), in call order; empty outside a sample
    lagLogs,          \* history: how many lag lines were logged
    samples,          \* history: the clock values at which a lag sample was begun (the first
                      \* get_slot call made)
    lastRead,         \* history: what stream.next() yielded last: "none" | "Item" | "Other" | "Err" | "End"
    okSamples,        \* history: how many lag samples had their three get_slot calls return Ok
    metrics,          \* metrics.rs:36-40 the three AtomicU64 counters of Metrics
    last,             \* metrics.rs:87-89 last_transactions, last_accounts, last_errors
    rPc,              \* where the reporter task is: "new" | "off" | "tick" (interval.tick) |
                      \* "send" (send_metric) | "panicked"
    rIdx,             \* which of the three send_metric calls of report_metrics is awaited
    delta,            \* the deltas report_metrics computed at the latest tick
    readPrev,         \* history: the counter values read at the tick before the latest
    readCur,          \* history: the counter values read at the latest tick
    sumDeltas,        \* history: per counter, the deltas computed since it last went down, summed
    lastFailed,       \* history: the send_metric call that returned last returned Err
    args,             \* config.rs:173 `args: &Filters`, the filters section of config.yaml
    commitment,       \* config.rs:173 `commitment: Option<CommitmentLevel>`
    addrFile,         \* what reading the file at accounts_account_path gives (config.rs:179-180)
    request,          \* what get_subscribe_request returned, NoRequest before it ran
    subscribed,       \* history: how many times main.rs:100 sent the request upstream
    metricsConfig,    \* main.rs:68 `metrics_config`, what get_metrics_config returned
    interval_secs     \* metrics.rs:117 `interval_secs`, 0 before start() computed it

pipeVars == <<now, last_slot_check, dPc, dHeld, nRead, eos, queue, rxOpen, wPc, bus,
              exitCode, tbItems, failedId, skipped, shutdownsSent, watermarks, lagLogs,
              samples, lastRead, okSamples>>

repVars == <<metrics, last, rPc, rIdx, delta, readPrev, readCur, sumDeltas, lastFailed>>

cfgVars == <<args, commitment, addrFile, request, subscribed, metricsConfig, interval_secs>>

vars == <<pipeVars, repVars, cfgVars>>

\* ---------------------------------------------------------------- bounds
MaxItems == 4       \* upstream items read in one run with the clock running
MaxBurst == 5       \* upstream items read in one run with the clock stopped
MaxTime == 5        \* seconds of clock modelled
MaxClock == 11      \* seconds of clock modelled where two lag samples are looked at, one taking a second
MaxSampled == 3     \* upstream items read in one run over that longer time
MaxCounter == 1     \* largest value drawn for the accounts and errors counters
MaxLen == 4         \* longest filter entry drawn character by character
MaxEntries == 2     \* longest list of filter entries drawn
MaxAddrs == 2       \* longest list of account addresses drawn
MaxStartItems == 2  \* upstream items read in one run that begins at the build
MaxCount == 2       \* increments of each counter in one run of the reporter
MaxInterval == 12   \* largest metrics interval drawn, in seconds
MaxEpoch == 12      \* largest epoch whose first and last slots are drawn
\* main.rs:14 CHANNEL_SIZE is 50_000; the model runs the same channel at a small capacity
CHANNEL_SIZE == 2

\* ------------------------------------------------------------- constants
SAMPLE_PERIOD == 5  \* main.rs:121 Duration::from_secs(5)
NoExit == -1        \* the process has not exited
EXIT_FAILURE == 1   \* main.rs:234 std::process::exit(1)
EXIT_SUCCESS == 0   \* main.rs:195 Ok(()) returned from main
EXIT_PANIC == 101   \* the status of a Rust process whose main thread panicked
EPOCH_SIZE == 432000 \* main.rs:13

NoMsg == [kind |-> "none"]
Shutdown == [kind |-> "Shutdown"]

\* ------------------------------------------------- Option, Result, text
\* Option<T>
None == [some |-> FALSE]

Some(x) == [some |-> TRUE, v |-> x]

\* Option::unwrap_or / unwrap_or_default
unwrap_or(opt, default) == IF opt.some THEN opt.v ELSE default

\* `.iter().flatten()` over an Option<Vec<String>>: the entries, none for None.
Flatten(opt) == unwrap_or(opt, << >>)

\* Result<T, anyhow::Error>
Ok(x) == [ok |-> TRUE, v |-> x]

Err(e) == [ok |-> FALSE, err |-> e]

\* A String is the sequence of its characters. A character is written as the
\* one-character string, or, where a TLA+ string cannot hold it, as "U+" followed by
\* its code point in hexadecimal.
DigitChars == <<"0", "1", "2", "3", "4", "5", "6", "7", "8", "9">>

IsDigit(c) == \E i \in 1..Len(DigitChars) : DigitChars[i] = c

DigitValue(c) == (CHOOSE i \in 1..Len(DigitChars) : DigitChars[i] = c) - 1

\* u64::MAX = 18446744073709551615, as its decimal digits.
U64_MAX ==
    <<"1", "8", "4", "4", "6", "7", "4", "4", "0", "7",
      "3", "7", "0", "9", "5", "5", "1", "6", "1", "5">>

\* A digit string without its leading zeros.
RECURSIVE StripZeros(_)
StripZeros(digits) ==
    IF digits # << >> /\ Head(digits) = "0" THEN StripZeros(Tail(digits)) ELSE digits

\* a > b for two digit strings without leading zeros: the longer is the greater, and
\* of two of one length the one with the greater digit where they first differ.
RECURSIVE DigitsGreater(_, _)
DigitsGreater(a, b) ==
    IF Len(a) # Len(b) THEN Len(a) > Len(b)
    ELSE IF a = << >> THEN FALSE
    ELSE IF Head(a) # Head(b) THEN DigitValue(Head(a)) > DigitValue(Head(b))
    ELSE DigitsGreater(Tail(a), Tail(b))

\* checked_mul(10) followed by checked_add(digit) overflows: the digits read so far,
\* this one included, stand for a number above u64::MAX.
Overflows(digits) == DigitsGreater(StripZeros(digits), U64_MAX)

\* The loop of str::parse::<u64> over the characters after the sign: `seen` are the
\* digits read so far and `acc` the number they stand for. At each character the
\* digit test comes first, then the two checked operations.
RECURSIVE ParseDigits(_, _, _)
ParseDigits(s, seen, acc) ==
    IF s = << >> THEN Ok(acc)
    ELSE IF ~IsDigit(Head(s)) THEN Err("invalid digit found in string")
    ELSE IF Overflows(Append(seen, Head(s)))
    THEN Err("number too large to fit in target type")
    ELSE ParseDigits(Tail(s), Append(seen, Head(s)), acc * 10 + DigitValue(Head(s)))

\* str::parse::<u64>: decimal digits after an optional '+'; the empty string, a lone
\* sign, '-' and any other character are errors, and so is a numeral above u64::MAX.
ParseU64(s) ==
    IF s = << >> THEN Err("cannot parse integer from empty string")
    ELSE IF Head(s) = "+"
    THEN IF Tail(s) = << >> THEN Err("invalid digit found in string")
         ELSE ParseDigits(Tail(s), << >>, 0)
    ELSE ParseDigits(s, << >>, 0)

\* str::split(sep).collect(): the pieces between the separators, in order; a string
\* without separator is one piece, the empty string too.
RECURSIVE Split(_, _)
Split(s, sep) ==
    IF \A i \in 1..Len(s) : s[i] # sep THEN <<s>>
    ELSE LET i == CHOOSE k \in 1..Len(s) : s[k] = sep /\ \A j \in 1..(k - 1) : s[j] # sep
         IN  <<SubSeq(s, 1, i - 1)>> \o Split(SubSeq(s, i + 1, Len(s)), sep)

\* The characters with the Unicode property White_Space.
WhiteSpace ==
    {"\t", "\n", "U+000B", "\f", "\r", " ", "U+0085", "U+00A0", "U+1680",
     "U+2000", "U+2001", "U+2002", "U+2003", "U+2004", "U+2005", "U+2006", "U+2007",
     "U+2008", "U+2009", "U+200A", "U+2028", "U+2029", "U+202F", "U+205F", "U+3000"}

\* char::is_whitespace
IsWhitespace(c) == c \in WhiteSpace

\* str::trim: without the leading and trailing whitespace.
RECURSIVE Trim(_)
Trim(s) ==
    IF s = << >> THEN s
    ELSE IF IsWhitespace(Head(s)) THEN Trim(Tail(s))
    ELSE IF IsWhitespace(s[Len(s)]) THEN Trim(SubSeq(s, 1, Len(s) - 1))
    ELSE s

\* --------------------------------------------- config.rs: the filter builder
\* HashMap<String, _>: a function from its keys.
EmptyMap == << >>

\* HashMap::insert into a map that does not have the key.
Insert(map, key, value) == [k \in (DOMAIN map) \cup {key} |-> IF k = key THEN value ELSE map[k]]

\* The key of every entry get_subscribe_request inserts.
CLIENT == "client"

\* config.rs:41-141 Filters with every field absent.
NoFilters ==
    [accounts |-> None, accounts_nonempty_txn_signature |-> None,
     accounts_account |-> None, accounts_account_path |-> None, accounts_owner |-> None,
     accounts_memcmp |-> None, accounts_datasize |-> None,
     accounts_token_account_state |-> None, accounts_lamports |-> None,
     accounts_data_slice |-> None,
     slots |-> None, slots_filter_by_commitment |-> None,
     transactions |-> None, transactions_vote |-> None, transactions_failed |-> None,
     transactions_signature |-> None, transactions_account_include |-> None,
     transactions_account_exclude |-> None, transactions_account_required |-> None,
     transactions_status |-> None, transactions_status_vote |-> None,
     transactions_status_failed |-> None, transactions_status_signature |-> None,
     transactions_status_account_include |-> None,
     transactions_status_account_exclude |-> None,
     transactions_status_account_required |-> None,
     entries |-> None,
     blocks |-> None, blocks_account_include |-> None,
     blocks_include_transactions |-> None, blocks_include_accounts |-> None,
     blocks_include_entries |-> None,
     blocks_meta |-> None, ping |-> None]

\* Mutant: a category whose flag is absent is subscribed to.
EnabledUnlessFalse(flag) == unwrap_or(flag, TRUE)

\* config.rs:175, 253, 265, 280, 295, 300, 313 `args.<category>.unwrap_or(false)`
Enabled(flag) == unwrap_or(flag, FALSE)

\* Mutant: the addresses of the file come first.
ExtendFront(list, more) == more \o list

\* config.rs:182 Vec::extend
Extend(list, more) == list \o more

\* config.rs:176-183: the inline addresses, then those of the file when a path is
\* given; a file that cannot be opened or parsed is an error.
AccountsAccount(a, file) ==
    IF a.accounts_account_path.some
    THEN IF file.ok THEN Ok(Extend(unwrap_or(a.accounts_account, << >>), file.v))
         ELSE Err(file.err)
    ELSE Ok(unwrap_or(a.accounts_account, << >>))

\* Mutant: an offset that does not parse is taken as 0.
ParseOffsetOrZero(offset) ==
    IF ParseU64(offset).ok THEN ParseU64(offset) ELSE Ok(0)

\* config.rs:193-194 `offset.parse().map_err(|_| anyhow!("invalid offset"))`
ParseOffset(offset) ==
    IF ParseU64(offset).ok THEN ParseU64(offset) ELSE Err("invalid offset")

\* config.rs:187-203, one accounts_memcmp entry.
MemcmpFilter(entry) ==
    LET parts == Split(entry, ",") IN
    IF Len(parts) = 2
    THEN LET offset == ParseOffset(parts[1]) IN
         IF offset.ok
         THEN Ok([filter |-> "Memcmp", offset |-> offset.v, base58 |-> Trim(parts[2])])
         ELSE offset
    ELSE Err("invalid memcmp")

\* config.rs:186-204: the entries in order, stopping at the first that is refused.
RECURSIVE MemcmpFilters(_, _)
MemcmpFilters(entries, filters) ==
    IF entries = << >> THEN Ok(filters)
    ELSE LET f == MemcmpFilter(Head(entries)) IN
         IF f.ok THEN MemcmpFilters(Tail(entries), Append(filters, f.v)) ELSE f

\* Mutant: lt and gt are exchanged.
LamportsCmpExchanged(cmp, value) ==
    IF cmp = <<"e", "q">> THEN Ok([filter |-> "Lamports", cmp |-> "Eq", value |-> value])
    ELSE IF cmp = <<"n", "e">> THEN Ok([filter |-> "Lamports", cmp |-> "Ne", value |-> value])
    ELSE IF cmp = <<"l", "t">> THEN Ok([filter |-> "Lamports", cmp |-> "Gt", value |-> value])
    ELSE IF cmp = <<"g", "t">> THEN Ok([filter |-> "Lamports", cmp |-> "Lt", value |-> value])
    ELSE Err("invalid lamports filter")

\* config.rs:224-232 `match *cmp`
LamportsCmp(cmp, value) ==
    IF cmp = <<"e", "q">> THEN Ok([filter |-> "Lamports", cmp |-> "Eq", value |-> value])
    ELSE IF cmp = <<"n", "e">> THEN Ok([filter |-> "Lamports", cmp |-> "Ne", value |-> value])
    ELSE IF cmp = <<"l", "t">> THEN Ok([filter |-> "Lamports", cmp |-> "Lt", value |-> value])
    ELSE IF cmp = <<"g", "t">> THEN Ok([filter |-> "Lamports", cmp |-> "Gt", value |-> value])
    ELSE Err("invalid lamports filter")

\* config.rs:216-238, one accounts_lamports entry: the value is parsed before the
\* comparator is looked at.
LamportsFilter(entry) ==
    LET parts == Split(entry, ":") IN
    IF Len(parts) = 2
    THEN LET value == ParseU64(parts[2]) IN
         IF value.ok THEN LamportsCmp(parts[1], value.v)
         ELSE Err("invalid lamports value")
    ELSE Err("invalid lamports format")

\* config.rs:215-239
RECURSIVE LamportsFilters(_, _)
LamportsFilters(entries, filters) ==
    IF entries = << >> THEN Ok(filters)
    ELSE LET f == LamportsFilter(Head(entries)) IN
         IF f.ok THEN LamportsFilters(Tail(entries), Append(filters, f.v)) ELSE f

\* config.rs:205-214: the datasize filter, then the token account state filter.
SizeAndStateFilters(a, filters) ==
    LET sized == IF a.accounts_datasize.some
                 THEN Append(filters, [filter |-> "Datasize", size |-> a.accounts_datasize.v])
                 ELSE filters
    IN  IF unwrap_or(a.accounts_token_account_state, FALSE)
        THEN Append(sized, [filter |-> "TokenAccountState", state |-> TRUE])
        ELSE sized

\* config.rs:185-239 `filters`: memcmp, datasize, token account state, lamports.
AccountsFilters(a) ==
    LET memcmp == MemcmpFilters(Flatten(a.accounts_memcmp), << >>) IN
    IF ~memcmp.ok THEN memcmp
    ELSE LamportsFilters(Flatten(a.accounts_lamports), SizeAndStateFilters(a, memcmp.v))

\* Mutant: the file and the filters are read and checked whatever the flag says, and
\* the flag only decides whether the entry is inserted.
AccountsMapCheckedAlways(a, file) ==
    LET accounts_account == AccountsAccount(a, file) IN
    IF ~accounts_account.ok THEN accounts_account
    ELSE LET filters == AccountsFilters(a) IN
         IF ~filters.ok THEN filters
         ELSE IF Enabled(a.accounts)
         THEN Ok(Insert(EmptyMap, CLIENT,
                        [nonempty_txn_signature |-> a.accounts_nonempty_txn_signature,
                         account |-> accounts_account.v,
                         owner |-> unwrap_or(a.accounts_owner, << >>),
                         filters |-> filters.v]))
         ELSE Ok(EmptyMap)

\* config.rs:174-250 the accounts mapping.
AccountsMap(a, file) ==
    IF Enabled(a.accounts)
    THEN LET accounts_account == AccountsAccount(a, file) IN
         IF ~accounts_account.ok THEN accounts_account
         ELSE LET filters == AccountsFilters(a) IN
              IF ~filters.ok THEN filters
              ELSE Ok(Insert(EmptyMap, CLIENT,
                             [nonempty_txn_signature |-> a.accounts_nonempty_txn_signature,
                              account |-> accounts_account.v,
                              owner |-> unwrap_or(a.accounts_owner, << >>),
                              filters |-> filters.v]))
    ELSE Ok(EmptyMap)

\* config.rs:252-262
SlotsMap(a) ==
    IF Enabled(a.slots)
    THEN Insert(EmptyMap, CLIENT,
                [filter_by_commitment |-> Some(unwrap_or(a.slots_filter_by_commitment, FALSE)),
                 interslot_updates |-> None])
    ELSE EmptyMap

\* config.rs:264-277
TransactionsMap(a) ==
    IF Enabled(a.transactions)
    THEN Insert(EmptyMap, CLIENT,
                [vote |-> a.transactions_vote,
                 failed |-> a.transactions_failed,
                 signature |-> a.transactions_signature,
                 account_include |-> unwrap_or(a.transactions_account_include, << >>),
                 account_exclude |-> unwrap_or(a.transactions_account_exclude, << >>),
                 account_required |-> unwrap_or(a.transactions_account_required, << >>)])
    ELSE EmptyMap

\* config.rs:279-292
TransactionsStatusMap(a) ==
    IF Enabled(a.transactions_status)
    THEN Insert(EmptyMap, CLIENT,
                [vote |-> a.transactions_status_vote,
                 failed |-> a.transactions_status_failed,
                 signature |-> a.transactions_status_signature,
                 account_include |-> unwrap_or(a.transactions_status_account_include, << >>),
                 account_exclude |-> unwrap_or(a.transactions_status_account_exclude, << >>),
                 account_required |-> unwrap_or(a.transactions_status_account_required, << >>)])
    ELSE EmptyMap

\* config.rs:294-297
EntriesMap(a) ==
    IF Enabled(a.entries) THEN Insert(EmptyMap, CLIENT, [entry |-> TRUE]) ELSE EmptyMap

\* config.rs:299-310
BlocksMap(a) ==
    IF Enabled(a.blocks)
    THEN Insert(EmptyMap, CLIENT,
                [account_include |-> unwrap_or(a.blocks_account_include, << >>),
                 include_transactions |-> a.blocks_include_transactions,
                 include_accounts |-> a.blocks_include_accounts,
                 include_entries |-> a.blocks_include_entries])
    ELSE EmptyMap

\* config.rs:312-315
BlocksMetaMap(a) ==
    IF Enabled(a.blocks_meta) THEN Insert(EmptyMap, CLIENT, [blocks_meta |-> TRUE]) ELSE EmptyMap

\* config.rs:319-327, one accounts_data_slice entry.
DataSlice(entry) ==
    LET parts == Split(entry, ",") IN
    IF Len(parts) = 2
    THEN LET offset == ParseU64(parts[1])
             length == ParseU64(parts[2])
         IN  IF ~offset.ok THEN offset
             ELSE IF ~length.ok THEN length
             ELSE Ok([offset |-> offset.v, length |-> length.v])
    ELSE Err("invalid data_slice format")

\* Mutant: an entry that is not well formed is left out and the build goes on.
RECURSIVE DataSlicesSkipMalformed(_, _)
DataSlicesSkipMalformed(entries, slices) ==
    IF entries = << >> THEN Ok(slices)
    ELSE LET d == DataSlice(Head(entries)) IN
         IF d.ok THEN DataSlicesSkipMalformed(Tail(entries), Append(slices, d.v))
         ELSE DataSlicesSkipMalformed(Tail(entries), slices)

\* config.rs:317-328
RECURSIVE DataSlices(_, _)
DataSlices(entries, slices) ==
    IF entries = << >> THEN Ok(slices)
    ELSE LET d == DataSlice(Head(entries)) IN
         IF d.ok THEN DataSlices(Tail(entries), Append(slices, d.v)) ELSE d

\* CommitmentLevel as i32 (config.rs:341)
CommitmentLevels == {"Processed", "Confirmed", "Finalized"}

AsI32(level) ==
    IF level = "Processed" THEN 0 ELSE IF level = "Confirmed" THEN 1 ELSE 2

\* config.rs:173-345 get_subscribe_request; `file` is what reading the file at
\* accounts_account_path gives, looked at only where the code reads the file.
get_subscribe_request(a, commit, file) ==
    LET accounts == AccountsMap(a, file) IN
    IF ~accounts.ok THEN accounts
    ELSE LET accounts_data_slice == DataSlices(Flatten(a.accounts_data_slice), << >>) IN
         IF ~accounts_data_slice.ok THEN accounts_data_slice
         ELSE Ok([from_slot |-> None,
                  slots |-> SlotsMap(a),
                  accounts |-> accounts.v,
                  transactions |-> TransactionsMap(a),
                  transactions_status |-> TransactionsStatusMap(a),
                  entry |-> EntriesMap(a),
                  blocks |-> BlocksMap(a),
                  blocks_meta |-> BlocksMetaMap(a),
                  commitment |-> IF commit.some THEN Some(AsI32(commit.v)) ELSE None,
                  accounts_data_slice |-> accounts_data_slice.v,
                  ping |-> IF a.ping.some THEN Some([id |-> a.ping.v]) ELSE None])

\* Before get_subscribe_request has run.
NoRequest == [ok |-> FALSE, err |-> "not built"]

\* The file at accounts_account_path: unreadable, not a JSON array of strings, or a list.
NoFile == Err("No such file or directory")

\* ------------------------------------------------ the inputs of the builder
\* The strings over an alphabet, up to a length.
Strings(alphabet, n) == UNION {[1..k -> alphabet] : k \in 0..n}

\* The lists over a set, up to a length.
Lists(S, n) == UNION {[1..k -> S] : k \in 0..n}

OptBool == {None, Some(TRUE), Some(FALSE)}

\* accounts_memcmp entries as a configuration file may hold them.
MemcmpExamples ==
    {<<"5", "0", ",">>,
     <<"a", "b", "c", ",", "A", "A", "A">>,
     <<"0", ",", "3", "G", "x", "9">>,
     <<"5", ",", " ", "a", "9", " ">>,
     <<",", "A", "A", "A">>,
     <<"1", ",", "2", ",", "3">>,
     <<"7">>,
     <<>>,
     <<"5", ",", "a", "\r">>,
     <<"5", ",", "\f", "U+00A0", "a", " ", "b", "U+2003">>,
     <<"1", "8", "4", "4", "6", "7", "4", "4", "0", "7", "3", "7", "0", "9", "5", "5", "1", "6", "1", "6", ",", "a">>,
     <<"1", "8", "4", "4", "6", "7", "4", "4", "0", "7", "3", "7", "0", "9", "5", "5", "1", "6", "1", "5", "x", ",", "a">>}

\* accounts_lamports entries as a configuration file may hold them.
LamportsExamples ==
    {<<"e", "q", ":", "1", "0", "0">>,
     <<"g", "t", ":", "0">>,
     <<"n", "e", ":", "7">>,
     <<"l", "t", ":", "3">>,
     <<"b", "o", "g", "u", "s", ":", "5">>,
     <<"e", "q", ":", "n", "o", "t", "a", "n", "u", "m", "b", "e", "r">>,
     <<"e", "q", ":", "1", ":", "2">>,
     <<"e", "q">>,
     <<"g", "e", ":", "5">>,
     <<"E", "Q", ":", "5">>,
     <<"e", "q", ":">>,
     <<"e", "q", ":", "-", "1">>,
     <<"e", "q", ":", "9", "9", "9", "9", "9", "9", "9", "9", "9", "9", "9", "9", "9", "9", "9", "9", "9", "9", "9", "9">>,
     <<"l", "t", ":", "0", "0", "0", "0", "0", "0", "0", "0", "0", "0", "0", "0", "0", "0", "0", "0", "0", "0", "0", "0", "0", "7">>}

\* accounts_data_slice entries as a configuration file may hold them.
DataSliceExamples ==
    {<<"0", ",", "3", "2">>,
     <<"8", ",", "8">>,
     <<"1", "0">>,
     <<"1", ",", "2", ",", "3">>,
     <<"a", ",", "5">>,
     <<"-", "1", ",", "2">>,
     <<"4", ",", "0", "x", "1", "0">>,
     <<"0", ",", "1", "8", "4", "4", "6", "7", "4", "4", "0", "7", "3", "7", "0", "9", "5", "5", "1", "6", "1", "6">>,
     <<"+", "0", "0", "0", "0", "0", "0", "0", "0", "0", "0", "0", "0", "0", "0", "0", "0", "0", "0", "0", "0", ",", "7">>}

DataSliceAlphabet == {"0", "7", ",", "+", " "}

MemcmpAlphabet == {"0", "5", ",", "a", " "}

LamportsAlphabet == {"e", "q", ":", "0", "+"}

\* The lists of entries drawn for a field: every short string alone, and the lists
\* of examples.
EntryLists(alphabet, examples) ==
    {<<e>> : e \in Strings(alphabet, MaxLen)} \cup Lists(examples, MaxEntries)

Addresses == {"Addr1", "Addr2"}

\* A configuration with the options of every category set.
FullFilters ==
    [NoFilters EXCEPT
        !.accounts_nonempty_txn_signature = Some(TRUE),
        !.accounts_owner = Some(<<"Owner1">>),
        !.accounts_datasize = Some(165),
        !.accounts_token_account_state = Some(TRUE),
        !.slots_filter_by_commitment = Some(TRUE),
        !.transactions_vote = Some(FALSE),
        !.transactions_failed = Some(FALSE),
        !.transactions_signature = Some("Sig1"),
        !.transactions_account_include = Some(<<"Addr1">>),
        !.transactions_status_vote = Some(TRUE),
        !.transactions_status_account_required = Some(<<"Addr2">>),
        !.blocks_account_include = Some(<<"Addr1", "Addr2">>),
        !.blocks_include_transactions = Some(TRUE),
        !.blocks_include_entries = Some(FALSE),
        !.ping = Some(1)]

\* The configuration the pipeline is run with: transactions and block metadata.
PipelineFilters ==
    [NoFilters EXCEPT !.transactions = Some(TRUE), !.blocks_meta = Some(TRUE)]

\* Every combination of the seven category flags, each absent, true or false.
FlagInputs ==
    {[args |-> [base EXCEPT !.accounts = f[1], !.slots = f[2], !.transactions = f[3],
                            !.transactions_status = f[4], !.entries = f[5],
                            !.blocks = f[6], !.blocks_meta = f[7]],
      commitment |-> c, addrFile |-> NoFile] :
        base \in {NoFilters, FullFilters}, f \in [1..7 -> OptBool],
        c \in {None} \cup {Some(level) : level \in CommitmentLevels}}

MemcmpInputs ==
    {[args |-> [NoFilters EXCEPT !.accounts = acc, !.accounts_memcmp = Some(m)],
      commitment |-> None, addrFile |-> NoFile] :
        acc \in OptBool, m \in EntryLists(MemcmpAlphabet, MemcmpExamples)}

LamportsInputs ==
    {[args |-> [FullFilters EXCEPT !.accounts = acc, !.accounts_lamports = Some(l)],
      commitment |-> None, addrFile |-> NoFile] :
        acc \in OptBool, l \in EntryLists(LamportsAlphabet, LamportsExamples)}

AddressInputs ==
    {[args |-> [NoFilters EXCEPT !.accounts = acc, !.accounts_account = inline,
                                 !.accounts_account_path = path],
      commitment |-> None, addrFile |-> file] :
        acc \in OptBool,
        inline \in {None} \cup {Some(l) : l \in Lists(Addresses, MaxAddrs)},
        path \in {None, Some("accounts.json")},
        file \in {NoFile, Err("expected value at line 1 column 1")}
                     \cup {Ok(l) : l \in Lists(Addresses, MaxAddrs)}}

DataSliceInputs ==
    {[args |-> [NoFilters EXCEPT !.accounts = acc, !.accounts_data_slice = Some(d)],
      commitment |-> None, addrFile |-> NoFile] :
        acc \in OptBool, d \in EntryLists(DataSliceAlphabet, DataSliceExamples)}

\* The inputs get_subscribe_request is run on, one family after the other.
BuildInputs == <<FlagInputs, MemcmpInputs, LamportsInputs, AddressInputs, DataSliceInputs>>

\* ------------------------------------------------------- upstream items
\* A SubscribeUpdateTransaction: `hasTx` is msg.transaction.is_some(), `encOk` is
\* whether the external encoder (create_tx_with_meta, encode) accepts it.
\* `slot` is msg.slot; the items of a run have consecutive slots, the second one
\* being the first slot of epoch 1.
SlotOfItem(id) == EPOCH_SIZE - 2 + id

TransactionUpdate(id, hasTx, encOk) ==
    [kind |-> "Transaction", id |-> id, hasTx |-> hasTx, encOk |-> encOk,
     slot |-> SlotOfItem(id)]

BlockMetaUpdate(id) ==
    [kind |-> "BlockMeta", id |-> id, hasTx |-> FALSE, encOk |-> TRUE,
     slot |-> SlotOfItem(id)]

\* The update kinds the loop of main matches with `_ => {}`.
OtherKinds == {"Account", "Slot", "TransactionStatus", "Entry", "Block", "Ping", "Pong", "Empty"}

\* What stream.next() can yield as its id-th item: Ok(update) or Err(status).
UpstreamItems(id) ==
    {TransactionUpdate(id, TRUE, TRUE), TransactionUpdate(id, TRUE, FALSE),
     TransactionUpdate(id, FALSE, FALSE), BlockMetaUpdate(id)}
    \cup {[kind |-> k, id |-> id, hasTx |-> FALSE, encOk |-> FALSE,
           slot |-> SlotOfItem(id)] : k \in OtherKinds}
    \cup {[kind |-> "Err", id |-> id, hasTx |-> FALSE, encOk |-> FALSE,
           slot |-> SlotOfItem(id)]}

\* ProcessingMessage::Transaction(msg) / ProcessingMessage::BlockMetadata(msg)
ProcessingMessage(item) ==
    [kind |-> IF item.kind = "BlockMeta" THEN "BlockMetadata" ELSE "Transaction",
     id |-> item.id, hasTx |-> item.hasTx, encOk |-> item.encOk, slot |-> item.slot]

\* The three counters, in the order report_metrics sends them (metrics.rs:168-187).
Counters == <<"transactions", "accounts", "errors">>

CounterNames == {Counters[i] : i \in 1..Len(Counters)}

Alive == exitCode = NoExit

\* ------------------------------------------- the metrics configuration
\* metrics.rs:23-32 MetricsConfig::default(); the endpoint is named, not spelled out.
DefaultMetricsConfig ==
    [enabled |-> FALSE, api_token |-> << >>, endpoint |-> "betterstack", interval |-> 10]

\* config.rs:157-170 get_metrics_config: each field of the `metrics` section of
\* config.yaml, or the default where the field or the whole section is absent.
get_metrics_config(wrapper) ==
    IF wrapper.some
    THEN [enabled |-> unwrap_or(wrapper.v.enabled, DefaultMetricsConfig.enabled),
          api_token |-> unwrap_or(wrapper.v.api_token, DefaultMetricsConfig.api_token),
          endpoint |-> unwrap_or(wrapper.v.endpoint, DefaultMetricsConfig.endpoint),
          interval |-> unwrap_or(wrapper.v.interval, DefaultMetricsConfig.interval)]
    ELSE DefaultMetricsConfig

MIN_INTERVAL == 10  \* metrics.rs:117 `.max(10)`

\* Mutant: the configured interval as it is.
IntervalAsConfigured(interval) == interval

\* metrics.rs:117 `self.config.interval.max(10)`
IntervalSecs(interval) == IF interval >= MIN_INTERVAL THEN interval ELSE MIN_INTERVAL

\* metrics.rs:203 `format!("Bearer {}", self.config.api_token)`
AuthValue(api_token) == <<"B", "e", "a", "r", "e", "r", " ">> \o api_token

\* The bytes HeaderValue::from_str refuses: the control characters other than tab,
\* that is 0 to 8, 10 to 31, and 127. Every other byte is taken, those of a character
\* beyond ASCII too.
ControlChars ==
    {"U+0000", "U+0001", "U+0002", "U+0003", "U+0004", "U+0005", "U+0006", "U+0007",
     "U+0008", "\n", "U+000B", "\f", "\r", "U+000E", "U+000F", "U+0010", "U+0011",
     "U+0012", "U+0013", "U+0014", "U+0015", "U+0016", "U+0017", "U+0018", "U+0019",
     "U+001A", "U+001B", "U+001C", "U+001D", "U+001E", "U+001F", "U+007F"}

\* metrics.rs:206 `header::HeaderValue::from_str(&auth_value)`
HeaderValueFromStr(s) ==
    IF \A i \in 1..Len(s) : s[i] \notin ControlChars
    THEN Ok(s)
    ELSE Err("failed to parse header value")

\* The metrics section the pipeline specifications run with: enabled, a token that
\* is a legal header value, the default endpoint and interval.
RunMetricsConfig ==
    get_metrics_config(Some([enabled |-> Some(TRUE), api_token |-> Some(<<"t", "0", "k">>),
                             endpoint |-> None, interval |-> None]))

\* main.rs:68-100: the reporter was started with RunMetricsConfig, the request was
\* built and sent, and the pipeline starts.
Started ==
    /\ args = PipelineFilters
    /\ commitment = None
    /\ addrFile = NoFile
    /\ request = get_subscribe_request(PipelineFilters, None, NoFile)
    /\ subscribed = 1
    /\ metricsConfig = RunMetricsConfig
    /\ interval_secs = IntervalSecs(RunMetricsConfig.interval)

Init ==
    /\ now = 0
    /\ last_slot_check = 0
    /\ dPc = "recv"
    /\ dHeld = NoMsg
    /\ nRead = 0
    /\ eos = FALSE
    /\ queue = << >>
    /\ rxOpen = TRUE
    /\ wPc = "recv"
    /\ bus = << >>
    /\ exitCode = NoExit
    /\ tbItems = {}
    /\ failedId = 0
    /\ skipped = {}
    /\ shutdownsSent = 0
    /\ watermarks = << >>
    /\ lagLogs = 0
    /\ samples = << >>
    /\ lastRead = "none"
    /\ okSamples = 0
    /\ metrics = [c \in CounterNames |-> 0]
    /\ last = [c \in CounterNames |-> 0]
    /\ rPc = "tick"
    /\ rIdx = 0
    /\ delta = [c \in CounterNames |-> 0]
    /\ readPrev = [c \in CounterNames |-> 0]
    /\ readCur = [c \in CounterNames |-> 0]
    /\ sumDeltas = [c \in CounterNames |-> 0]
    /\ lastFailed = FALSE
    /\ Started

\* Time passes.
ClockTickUpTo(maxTime) ==
    /\ Alive
    /\ now < maxTime
    /\ now' = now + 1
    /\ UNCHANGED <<last_slot_check, dPc, dHeld, nRead, eos, queue, rxOpen, wPc, bus,
                   exitCode, tbItems, failedId, skipped, shutdownsSent, watermarks, lagLogs, samples, repVars, cfgVars, lastRead, okSamples>>

ClockTick == ClockTickUpTo(MaxTime)

ClockTickLong == ClockTickUpTo(MaxClock)

\* ------------------------------------------------------------ the channel
\* Mutant: a channel without a capacity.
Unbounded(q) == TRUE

\* mpsc::channel(CHANNEL_SIZE): send() completes only when a permit is free, that is
\* when fewer than CHANNEL_SIZE messages are buffered.
HasCapacity(q) == Len(q) < CHANNEL_SIZE

\* Mutant: the message is placed at the front (a stack, not a queue).
EnqueueFront(q, m) == <<m>> \o q

\* A completed send(): the message goes to the back of the channel.
Enqueue(q, m) == Append(q, m)

\* main.rs:121/150 `last_slot_check.elapsed() >= Duration::from_secs(5)`
SampleDue(t, lastCheck) == t - lastCheck >= SAMPLE_PERIOD

\* ------------------------------------------------- main: the stream loop
\* Mutant: an Err from the stream ends the loop.
DispatcherRecvItemBreakOnErr(item) ==
    /\ nRead' = nRead + 1
    /\ eos' = eos
    /\ lastRead' = IF item.kind \in {"Transaction", "BlockMeta"} THEN "Item"
                   ELSE IF item.kind = "Err" THEN "Err" ELSE "Other"
    /\ IF item.kind \in {"Transaction", "BlockMeta"}
       THEN /\ dHeld' = ProcessingMessage(item)
            /\ tbItems' = tbItems \cup {ProcessingMessage(item)}
            /\ dPc' = IF SampleDue(now, last_slot_check) THEN "sample" ELSE "send"
            /\ samples' = IF SampleDue(now, last_slot_check)
                           THEN Append(samples, now) ELSE samples
       ELSE /\ dHeld' = dHeld
            /\ tbItems' = tbItems
            /\ samples' = samples
            /\ dPc' = IF item.kind = "Err" THEN "shutdown" ELSE "recv"

\* Mutant: Account updates are forwarded to the worker as well.
DispatcherRecvItemForwardAccount(item) ==
    /\ nRead' = nRead + 1
    /\ eos' = eos
    /\ lastRead' = IF item.kind \in {"Transaction", "BlockMeta"} THEN "Item"
                   ELSE IF item.kind = "Err" THEN "Err" ELSE "Other"
    /\ IF item.kind \in {"Transaction", "BlockMeta", "Account"}
       THEN /\ dHeld' = ProcessingMessage(item)
            /\ tbItems' = tbItems
            /\ dPc' = IF SampleDue(now, last_slot_check) THEN "sample" ELSE "send"
            /\ samples' = IF SampleDue(now, last_slot_check)
                           THEN Append(samples, now) ELSE samples
       ELSE /\ dHeld' = dHeld
            /\ tbItems' = tbItems
            /\ samples' = samples
            /\ dPc' = "recv"

\* main.rs:117-185, one `stream.next().await` and the match on what it yields, up to
\* the next await. Some(Err) is logged; an update of another kind is dropped; a
\* BlockMeta or Transaction is kept for the send, and when the lag sample is due the
\* first get_slot call is made (main.rs:125/154). None ends the loop.
DispatcherRecvItem(item) ==
    /\ nRead' = nRead + 1
    /\ eos' = eos
    /\ lastRead' = IF item.kind \in {"Transaction", "BlockMeta"} THEN "Item"
                   ELSE IF item.kind = "Err" THEN "Err" ELSE "Other"
    /\ IF item.kind \in {"Transaction", "BlockMeta"}
       THEN /\ dHeld' = ProcessingMessage(item)
            /\ tbItems' = tbItems \cup {ProcessingMessage(item)}
            /\ dPc' = IF SampleDue(now, last_slot_check) THEN "sample" ELSE "send"
            /\ samples' = IF SampleDue(now, last_slot_check)
                           THEN Append(samples, now) ELSE samples
       ELSE /\ dHeld' = dHeld
            /\ tbItems' = tbItems
            /\ samples' = samples
            /\ dPc' = "recv"

DispatcherRecvEnd ==
    /\ eos' = TRUE
    /\ lastRead' = "End"
    /\ dPc' = "shutdown"
    /\ UNCHANGED <<nRead, dHeld, tbItems, samples>>

DispatcherRecvUpTo(maxItems) ==
    /\ Alive
    /\ dPc = "recv"
    /\ \/ /\ nRead < maxItems
          /\ \E item \in UpstreamItems(nRead + 1) : DispatcherRecvItem(item)
       \/ DispatcherRecvEnd
    /\ UNCHANGED <<now, last_slot_check, queue, rxOpen, wPc, bus, exitCode, failedId,
                   skipped, shutdownsSent, watermarks, lagLogs, repVars, cfgVars, okSamples>>

DispatcherRecv == DispatcherRecvUpTo(MaxItems)

DispatcherRecvBurst == DispatcherRecvUpTo(MaxBurst)

DispatcherRecvFew == DispatcherRecvUpTo(MaxSampled)

\* Mutant: the line is logged when any of the three calls returned Ok.
AnyWatermark(processed, confirmed, finalized) == processed \/ confirmed \/ finalized

\* main.rs:129/158: the lag line is logged only if the three get_slot calls returned Ok.
AllWatermarks(processed, confirmed, finalized) == processed /\ confirmed /\ finalized

\* Mutant: last_slot_check is reset only when the line was logged.
DispatcherSampleResetOnSuccess ==
    /\ Alive
    /\ dPc = "sample"
    /\ \E slot \in BOOLEAN :
          LET got == Append(watermarks, slot)
          IN  IF Len(got) < 3
              THEN /\ watermarks' = got
                   /\ UNCHANGED <<dPc, lagLogs, okSamples, last_slot_check>>
              ELSE /\ watermarks' = << >>
                   /\ lagLogs' = IF AllWatermarks(got[1], got[2], got[3])
                                 THEN lagLogs + 1 ELSE lagLogs
                   /\ okSamples' = IF \E i \in 1..3 : ~got[i]
                                   THEN okSamples ELSE okSamples + 1
                   /\ last_slot_check' = IF AllWatermarks(got[1], got[2], got[3])
                                         THEN now ELSE last_slot_check
                   /\ dPc' = "send"
    /\ UNCHANGED <<now, dHeld, nRead, eos, queue, rxOpen, wPc, bus, exitCode, tbItems, failedId,
                   skipped, shutdownsSent, samples, repVars, cfgVars, lastRead>>

\* main.rs:125-142 and 154-171: one `client.get_slot(..).await` of the lag sample
\* returns, Ok or Err (`.ok()` keeps which). After the first and the second, the next
\* call is made; after the third, the line is logged if the three returned Ok, and
\* last_slot_check is set to the time it is then, whatever they returned.
DispatcherSample ==
    /\ Alive
    /\ dPc = "sample"
    /\ \E slot \in BOOLEAN :
          LET got == Append(watermarks, slot)
          IN  IF Len(got) < 3
              THEN /\ watermarks' = got
                   /\ UNCHANGED <<dPc, lagLogs, okSamples, last_slot_check>>
              ELSE /\ watermarks' = << >>
                   /\ lagLogs' = IF AllWatermarks(got[1], got[2], got[3])
                                 THEN lagLogs + 1 ELSE lagLogs
                   /\ okSamples' = IF \E i \in 1..3 : ~got[i]
                                   THEN okSamples ELSE okSamples + 1
                   /\ last_slot_check' = now
                   /\ dPc' = "send"
    /\ UNCHANGED <<now, dHeld, nRead, eos, queue, rxOpen, wPc, bus, exitCode, tbItems, failedId,
                   skipped, shutdownsSent, samples, repVars, cfgVars, lastRead>>

\* Mutant: try_send in place of send: a message that finds the channel full is dropped.
DispatcherTrySend ==
    /\ Alive
    /\ dPc = "send"
    /\ queue' = IF HasCapacity(queue) THEN Enqueue(queue, dHeld) ELSE queue
    /\ dPc' = "recv"
    /\ dHeld' = NoMsg
    /\ UNCHANGED <<now, last_slot_check, nRead, eos, rxOpen, wPc, bus, exitCode, tbItems, failedId,
                   skipped, shutdownsSent, watermarks, lagLogs, samples, repVars, cfgVars, lastRead, okSamples>>

\* Mutant: the message is handed over only to a worker that is not busy publishing.
DispatcherSendToIdleWorker ==
    /\ Alive
    /\ dPc = "send"
    /\ wPc # "publishing"
    /\ HasCapacity(queue)
    /\ queue' = Enqueue(queue, dHeld)
    /\ dPc' = "recv"
    /\ dHeld' = NoMsg
    /\ UNCHANGED <<now, last_slot_check, nRead, eos, rxOpen, wPc, bus, exitCode, tbItems, failedId,
                   skipped, shutdownsSent, watermarks, lagLogs, samples, repVars, cfgVars, lastRead, okSamples>>

\* Mutant: the result of send is dropped (`let _ = ...`), the loop reads on.
DispatcherSendIgnoringClosed ==
    /\ Alive
    /\ dPc = "send"
    /\ IF rxOpen
       THEN /\ HasCapacity(queue)
            /\ queue' = Enqueue(queue, dHeld)
       ELSE queue' = queue
    /\ dPc' = "recv"
    /\ dHeld' = NoMsg
    /\ UNCHANGED <<now, last_slot_check, nRead, eos, rxOpen, wPc, bus, exitCode, tbItems, failedId,
                   skipped, shutdownsSent, watermarks, lagLogs, samples, repVars, cfgVars, lastRead, okSamples>>

\* main.rs:144-147 and 173-176 `tx_sender.send(msg).await`: it waits while the
\* channel is full, errs when the receiver is gone (the loop breaks), and otherwise
\* places the message and the loop goes back to stream.next().
DispatcherSend ==
    /\ Alive
    /\ dPc = "send"
    /\ IF rxOpen
       THEN /\ HasCapacity(queue)
            /\ queue' = Enqueue(queue, dHeld)
            /\ dPc' = "recv"
       ELSE /\ queue' = queue
            /\ dPc' = "shutdown"
    /\ dHeld' = NoMsg
    /\ UNCHANGED <<now, last_slot_check, nRead, eos, rxOpen, wPc, bus, exitCode, tbItems, failedId,
                   skipped, shutdownsSent, watermarks, lagLogs, samples, repVars, cfgVars, lastRead, okSamples>>

\* Mutant: the sentinel is sent from inside the loop, which then reads on.
DispatcherShutdownInLoop ==
    /\ Alive
    /\ dPc = "shutdown"
    /\ HasCapacity(queue)
    /\ queue' = Enqueue(queue, Shutdown)
    /\ shutdownsSent' = shutdownsSent + 1
    /\ dPc' = "recv"
    /\ UNCHANGED <<now, last_slot_check, dHeld, nRead, eos, rxOpen, wPc, bus, exitCode,
                   tbItems, failedId, skipped, watermarks, lagLogs, samples, repVars, cfgVars, lastRead, okSamples>>

\* main.rs:188-191 `let _ = tx_sender.send(ProcessingMessage::Shutdown).await`
DispatcherShutdown ==
    /\ Alive
    /\ dPc = "shutdown"
    /\ IF rxOpen
       THEN /\ HasCapacity(queue)
            /\ queue' = Enqueue(queue, Shutdown)
            /\ shutdownsSent' = shutdownsSent + 1
       ELSE UNCHANGED <<queue, shutdownsSent>>
    /\ dPc' = "join"
    /\ UNCHANGED <<now, last_slot_check, dHeld, nRead, eos, rxOpen, wPc, bus, exitCode,
                   tbItems, failedId, skipped, watermarks, lagLogs, samples, repVars, cfgVars, lastRead, okSamples>>

\* main.rs:193-196 `let _ = tx_handle.await; Ok(())`: main waits for the worker task
\* and returns. Returning drops main's locals, among them `runtime` (main.rs:64), a
\* second tokio Runtime created inside the future that #[tokio::main] runs with
\* block_on. tokio refuses to drop a Runtime inside an asynchronous context ("Cannot
\* drop a runtime in a context where blocking is not allowed") by panicking, so the
\* main thread panics after Ok(()) was produced and the process status is that of a
\* panic.
MainExitStatus == EXIT_PANIC

MainJoin ==
    /\ Alive
    /\ dPc = "join"
    /\ wPc = "done"
    /\ dPc' = "returned"
    /\ exitCode' = MainExitStatus
    /\ UNCHANGED <<now, last_slot_check, dHeld, nRead, eos, queue, rxOpen, wPc, bus,
                   tbItems, failedId, skipped, shutdownsSent, watermarks, lagLogs, samples, repVars, cfgVars, lastRead, okSamples>>

\* --------------------------------------------------- transaction_processor
\* A JSON object is the function from its keys to their values; `json!({})` has no key.
EmptyJson == << >>

\* Mutant: the epoch nearest to the slot.
EpochRounded(slot) == (slot + EPOCH_SIZE \div 2) \div EPOCH_SIZE

\* formatters.rs:55 `msg.slot / EPOCH_SIZE`, a division of u64
Epoch(slot) == slot \div EPOCH_SIZE

\* formatters.rs:40-61 format_transaction: Err when msg.transaction is None or the
\* encoder rejects it, else the encoded transaction with its "slot" and "epoch"
\* fields set.
FormatTransaction(msg) ==
    IF ~msg.hasTx THEN [ok |-> FALSE, value |-> "no transaction in the message"]
    ELSE IF ~msg.encOk THEN [ok |-> FALSE, value |-> "invalid tx with meta"]
    ELSE [ok |-> TRUE, value |-> [encoded |-> <<"transaction", msg.id>>,
                                  slot |-> msg.slot,
                                  epoch |-> Epoch(msg.slot)]]

\* formatters.rs:91-103 format_block_meta: always Ok; of its fields the slot and the
\* blockhash, which stands for the rest.
FormatBlockMeta(msg) ==
    [ok |-> TRUE, value |-> [slot |-> msg.slot, blockhash |-> <<"blockhash", msg.id>>]]

\* main.rs:229/240 `.unwrap_or_else(|_| serde_json::json!({}))`
UnwrapOrEmpty(res) == IF res.ok THEN res.value ELSE EmptyJson

\* main.rs:228 bs58 of transaction.signature, main.rs:239 bs58 of block_meta.blockhash
RecordKey(msg) ==
    IF msg.kind = "Transaction" THEN <<"bs58", "signature", msg.id>>
    ELSE <<"bs58", "blockhash", msg.id>>

\* Mutant: a message whose formatting fails is passed over too.
IsPublishedIfFormatted(msg) ==
    msg.kind = "BlockMetadata" \/ (msg.hasTx /\ msg.encOk)

\* main.rs:227 `if let Some(transaction) = tx.transaction.clone()`: a Transaction
\* message is published only when its inner transaction is present; a BlockMetadata
\* message always is.
IsPublished(msg) == msg.kind = "BlockMetadata" \/ msg.hasTx

\* The record handed to producer.send for a message.
RecordOf(msg) ==
    [id |-> msg.id,
     key |-> RecordKey(msg),
     value |-> UnwrapOrEmpty(IF msg.kind = "Transaction"
                             THEN FormatTransaction(msg) ELSE FormatBlockMeta(msg))]

\* Mutant: the sentinel is ignored and the loop goes on.
OnShutdownContinue ==
    /\ wPc' = "recv"
    /\ rxOpen' = rxOpen

\* main.rs:248 `ProcessingMessage::Shutdown => break`: the loop ends, the function
\* returns and its Receiver is dropped.
OnShutdown ==
    /\ wPc' = "done"
    /\ rxOpen' = FALSE

\* main.rs:224-250, one `rx.recv().await` and the match on the message, up to the
\* call of producer.send: Shutdown breaks the loop (the function returns and the
\* Receiver is dropped), a Transaction without inner transaction is passed over, any
\* other message is formatted and handed to producer.send.
WorkerRecv ==
    /\ Alive
    /\ wPc = "recv"
    /\ queue # << >>
    /\ queue' = Tail(queue)
    /\ LET msg == Head(queue) IN
         IF msg.kind = "Shutdown"
         THEN /\ OnShutdown
              /\ UNCHANGED <<bus, skipped>>
         ELSE IF IsPublished(msg)
         THEN /\ bus' = Append(bus, RecordOf(msg))
              /\ wPc' = "publishing"
              /\ UNCHANGED <<rxOpen, skipped>>
         ELSE /\ skipped' = skipped \cup {msg.id}
              /\ UNCHANGED <<wPc, rxOpen, bus>>
    /\ UNCHANGED <<now, last_slot_check, dPc, dHeld, nRead, eos, exitCode, tbItems, failedId,
                   shutdownsSent, watermarks, lagLogs, samples, repVars, cfgVars, lastRead, okSamples>>

\* Mutant: a failed publish is logged and the loop goes on.
AfterPublishLogOnly(ok) ==
    /\ wPc' = "recv"
    /\ exitCode' = exitCode
    /\ failedId' = IF ok THEN failedId ELSE bus[Len(bus)].id

\* main.rs:231-235 and 242-246: what follows producer.send's result. Ok: back to
\* rx.recv(). Err: std::process::exit(1).
AfterPublish(ok) ==
    IF ok
    THEN /\ wPc' = "recv"
         /\ exitCode' = exitCode
         /\ failedId' = failedId
    ELSE /\ wPc' = wPc
         /\ exitCode' = EXIT_FAILURE
         /\ failedId' = bus[Len(bus)].id

WorkerPublishReturn ==
    /\ Alive
    /\ wPc = "publishing"
    /\ \E ok \in BOOLEAN : AfterPublish(ok)
    /\ UNCHANGED <<now, last_slot_check, dPc, dHeld, nRead, eos, queue, rxOpen, bus,
                   tbItems, skipped, shutdownsSent, watermarks, lagLogs, samples, repVars, cfgVars, lastRead, okSamples>>

\* ------------------------------------------------------- the pipeline
Next ==
    \/ ClockTick
    \/ DispatcherRecv
    \/ DispatcherSample
    \/ DispatcherSend
    \/ DispatcherShutdown
    \/ MainJoin
    \/ WorkerRecv
    \/ WorkerPublishReturn

Spec == Init /\ [][Next]_vars

\* A burst: the same pipeline with the clock stopped, either at startup or at the
\* first instant a lag sample is due, reading up to MaxBurst items.
InitBurst ==
    /\ now \in {0, SAMPLE_PERIOD}
    /\ last_slot_check = 0
    /\ dPc = "recv"
    /\ dHeld = NoMsg
    /\ nRead = 0
    /\ eos = FALSE
    /\ queue = << >>
    /\ rxOpen = TRUE
    /\ wPc = "recv"
    /\ bus = << >>
    /\ exitCode = NoExit
    /\ tbItems = {}
    /\ failedId = 0
    /\ skipped = {}
    /\ shutdownsSent = 0
    /\ watermarks = << >>
    /\ lagLogs = 0
    /\ samples = << >>
    /\ lastRead = "none"
    /\ okSamples = 0
    /\ metrics = [c \in CounterNames |-> 0]
    /\ last = [c \in CounterNames |-> 0]
    /\ rPc = "tick"
    /\ rIdx = 0
    /\ delta = [c \in CounterNames |-> 0]
    /\ readPrev = [c \in CounterNames |-> 0]
    /\ readCur = [c \in CounterNames |-> 0]
    /\ sumDeltas = [c \in CounterNames |-> 0]
    /\ lastFailed = FALSE
    /\ Started

NextBurst ==
    \/ DispatcherRecvBurst
    \/ DispatcherSample
    \/ DispatcherSend
    \/ DispatcherShutdown
    \/ MainJoin
    \/ WorkerRecv
    \/ WorkerPublishReturn

SpecBurst == InitBurst /\ [][NextBurst]_vars

\* The pipeline with the clock stopped, reading up to MaxItems items, under the
\* scheduling of the tokio runtime: an await that can complete is eventually resumed.
\* WorkerPublishReturn is fair on the assumption that the bus answers every
\* producer.send, DispatcherSample on the assumption that get_slot returns (the
\* client is built with a 10 s timeout, main.rs:84).
NextPipe ==
    \/ DispatcherRecv
    \/ DispatcherSample
    \/ DispatcherSend
    \/ DispatcherShutdown
    \/ MainJoin
    \/ WorkerRecv
    \/ WorkerPublishReturn

FairPipe ==
    /\ InitBurst
    /\ [][NextPipe]_vars
    /\ WF_vars(DispatcherSample)
    /\ WF_vars(DispatcherSend)
    /\ WF_vars(DispatcherShutdown)
    /\ WF_vars(MainJoin)
    /\ WF_vars(WorkerRecv)
    /\ WF_vars(WorkerPublishReturn)

\* The worker task ends without having seen the sentinel: a panic below producer.send
\* unwinds transaction_processor, which drops its Receiver and with it the messages
\* still buffered; the channel is closed, and the JoinHandle resolves (to an Err that
\* main.rs:193 ignores).
WorkerPanic ==
    /\ Alive
    /\ wPc = "publishing"
    /\ wPc' = "done"
    /\ rxOpen' = FALSE
    /\ queue' = << >>
    /\ UNCHANGED <<now, last_slot_check, dPc, dHeld, nRead, eos, bus, exitCode, tbItems, failedId,
                   skipped, shutdownsSent, watermarks, lagLogs, samples, repVars, cfgVars, lastRead, okSamples>>

\* The pipeline (a burst) with a worker that may be lost.
NextWorkerLost ==
    \/ NextPipe
    \/ WorkerPanic

SpecWorkerLost == InitBurst /\ [][NextWorkerLost]_vars

\* The pipeline over a time long enough for two lag samples, reading up to MaxSampled
\* items.
NextSampling ==
    \/ ClockTickLong
    \/ DispatcherRecvFew
    \/ DispatcherSample
    \/ DispatcherSend
    \/ DispatcherShutdown
    \/ MainJoin
    \/ WorkerRecv
    \/ WorkerPublishReturn

SpecSampling == Init /\ [][NextSampling]_vars

\* ------------------------------------------------------ the metrics reporter
\* Mutant: the plain difference, without the branch for a counter that went down.
DeltaPlain(current, previous) == current - previous

\* metrics.rs:147-163, for one counter: the difference, or the current value when
\* the counter is below what was read last.
Delta(current, previous) ==
    IF current >= previous THEN current - previous ELSE current

\* Mutant: the value stored stays the one of the tick before.
NotSwapped(current, previous) == previous

\* metrics.rs:142-144 `self.last_x.swap(current_x, Relaxed)`: what is stored.
Swapped(current, previous) == current

\* metrics.rs:124-125 and 133-173: interval.tick() returns and report_metrics runs up
\* to its first await: the counters are read, swapped into last_*, the three deltas
\* are computed and the first send_metric is started. send_metric unwraps the
\* authorization header it builds (metrics.rs:203-207): with a token that is no legal
\* header value the reporter task panics there, before anything is sent.
ReporterTick ==
    /\ Alive
    /\ rPc = "tick"
    /\ last' = [c \in CounterNames |-> Swapped(metrics[c], last[c])]
    /\ delta' = [c \in CounterNames |-> Delta(metrics[c], last[c])]
    /\ IF HeaderValueFromStr(AuthValue(metricsConfig.api_token)).ok
       THEN /\ rPc' = "send"
            /\ rIdx' = 1
       ELSE /\ rPc' = "panicked"
            /\ rIdx' = 0
    /\ readPrev' = readCur
    /\ readCur' = metrics
    /\ sumDeltas' = [c \in CounterNames |->
                        IF metrics[c] >= readCur[c]
                        THEN sumDeltas[c] + delta'[c]
                        ELSE delta'[c]]
    /\ UNCHANGED <<cfgVars, pipeVars, metrics, lastFailed>>

\* Mutant: the reporter loop ends at the first report that fails.
AfterReportStopOnErr(ok) ==
    IF ok /\ rIdx < Len(Counters)
    THEN /\ rIdx' = rIdx + 1
         /\ rPc' = "send"
    ELSE /\ rIdx' = 0
         /\ rPc' = IF ok THEN "tick" ELSE "stopped"

\* metrics.rs:169-189 `self.send_metric(..).await?`: Ok goes on to the next of the
\* three reports, and after the third back to interval.tick(); Err returns from
\* report_metrics at once, start() logs it (metrics.rs:125-127) and loops.
AfterReport(ok) ==
    IF ok /\ rIdx < Len(Counters)
    THEN /\ rIdx' = rIdx + 1
         /\ rPc' = "send"
    ELSE /\ rIdx' = 0
         /\ rPc' = "tick"

ReporterSendReturn ==
    /\ Alive
    /\ rPc = "send"
    /\ \E ok \in BOOLEAN :
          /\ AfterReport(ok)
          /\ lastFailed' = ~ok
    /\ UNCHANGED <<cfgVars, pipeVars, metrics, last, delta, readPrev, readCur, sumDeltas>>

\* The values the transactions counter is given, and those of the other two.
TxSamples == {0, 3, 5, 12}

SmallSamples == 0..MaxCounter

\* The input of report_metrics: the values the three counters hold when the next
\* tick reads them, drawn from the sample sets, below the previous value included.
CounterInput ==
    /\ Alive
    /\ \E t \in TxSamples, a \in SmallSamples, e \in SmallSamples :
          metrics' = [c \in CounterNames |->
                         IF c = "transactions" THEN t ELSE IF c = "accounts" THEN a ELSE e]
    /\ UNCHANGED <<cfgVars, pipeVars, last, rPc, rIdx, delta, readPrev, readCur, sumDeltas,
                   lastFailed>>

NextReporter ==
    \/ ReporterTick
    \/ ReporterSendReturn
    \/ CounterInput

SpecReporter == Init /\ [][NextReporter]_vars

\* --------------------------------------- the reporter from its configuration
\* metrics.rs:52-64 increment_transactions, increment_accounts, increment_errors:
\* `fetch_add(1, Relaxed)` on one counter.
MetricsIncrement(c) ==
    /\ Alive
    /\ metrics[c] < MaxCount
    /\ metrics' = [metrics EXCEPT ![c] = metrics[c] + 1]
    /\ UNCHANGED <<cfgVars, pipeVars, last, rPc, rIdx, delta, readPrev, readCur, sumDeltas,
                   lastFailed>>

\* main.rs:69-78 and metrics.rs:111-130: with metrics enabled main creates the
\* reporter and start() computes the interval and spawns the loop; with metrics
\* disabled there is no reporter.
ReporterStart ==
    /\ Alive
    /\ rPc = "new"
    /\ IF metricsConfig.enabled
       THEN /\ interval_secs' = IntervalSecs(metricsConfig.interval)
            /\ rPc' = "tick"
       ELSE /\ interval_secs' = interval_secs
            /\ rPc' = "off"
    /\ UNCHANGED <<pipeVars, args, commitment, addrFile, request, subscribed, metricsConfig,
                   metrics, last, rIdx, delta, readPrev, readCur, sumDeltas, lastFailed>>

\* api_token values as a configuration file may hold them: the last one has a line
\* break in it, as a token pasted with its end of line has.
TokenExamples ==
    {<<"t", "0", "k">>,
     <<"t", "0", "k", "\n">>,
     <<"t", "\f", "k">>,
     <<"U+007F", "t", "0", "k">>,
     <<"t", "\t", "k", "U+00A0">>}

\* The `metrics` sections drawn: absent, or each field absent or given.
MetricsSections ==
    {None} \cup
    {Some([enabled |-> e, api_token |-> t, endpoint |-> p, interval |-> i]) :
        e \in OptBool,
        t \in {None} \cup {Some(x) : x \in TokenExamples},
        p \in {None, Some("custom")},
        i \in {None} \cup {Some(n) : n \in 0..MaxInterval}}

\* The sections the reporter is run with: enabled or not, each token, the rest absent.
ReporterSections ==
    {Some([enabled |-> e, api_token |-> t, endpoint |-> None, interval |-> None]) :
        e \in {None, Some(TRUE)},
        t \in {None} \cup {Some(x) : x \in TokenExamples}}

\* The state when main.rs:68 has read the metrics configuration: no reporter yet,
\* nothing built, nothing read from upstream.
BeforeStart ==
    /\ args = PipelineFilters
    /\ commitment = None
    /\ addrFile = NoFile
    /\ request = NoRequest
    /\ subscribed = 0
    /\ interval_secs = 0
    /\ now = 0
    /\ last_slot_check = 0
    /\ dPc = "recv"
    /\ dHeld = NoMsg
    /\ nRead = 0
    /\ eos = FALSE
    /\ queue = << >>
    /\ rxOpen = TRUE
    /\ wPc = "recv"
    /\ bus = << >>
    /\ exitCode = NoExit
    /\ tbItems = {}
    /\ failedId = 0
    /\ skipped = {}
    /\ shutdownsSent = 0
    /\ watermarks = << >>
    /\ lagLogs = 0
    /\ samples = << >>
    /\ lastRead = "none"
    /\ okSamples = 0
    /\ metrics = [c \in CounterNames |-> 0]
    /\ last = [c \in CounterNames |-> 0]
    /\ rPc = "new"
    /\ rIdx = 0
    /\ delta = [c \in CounterNames |-> 0]
    /\ readPrev = [c \in CounterNames |-> 0]
    /\ readCur = [c \in CounterNames |-> 0]
    /\ sumDeltas = [c \in CounterNames |-> 0]
    /\ lastFailed = FALSE

InitStart ==
    /\ \E section \in MetricsSections : metricsConfig = get_metrics_config(section)
    /\ BeforeStart

NextStart == ReporterStart

\* start() alone, over the configurations drawn.
SpecStart == InitStart /\ [][NextStart]_vars

InitMetrics ==
    /\ \E section \in ReporterSections : metricsConfig = get_metrics_config(section)
    /\ BeforeStart

NextMetrics ==
    \/ ReporterStart
    \/ \E c \in CounterNames : MetricsIncrement(c)
    \/ ReporterTick
    \/ ReporterSendReturn

\* The reporter from its start, beside counters that are incremented.
SpecMetrics == InitMetrics /\ [][NextMetrics]_vars

\* The timer fires again and again (metrics.rs:121-124), and every send_metric
\* returns: the HTTP client gives up after 5 seconds (metrics.rs:96).
FairMetrics ==
    /\ SpecMetrics
    /\ WF_vars(ReporterTick)
    /\ WF_vars(ReporterSendReturn)

\* The whole process: the pipeline (a burst) and the reporter task beside it.
NextSystem ==
    \/ DispatcherRecv
    \/ DispatcherSample
    \/ DispatcherSend
    \/ DispatcherShutdown
    \/ MainJoin
    \/ WorkerRecv
    \/ WorkerPublishReturn
    \/ ReporterTick
    \/ ReporterSendReturn

SpecSystem == InitBurst /\ [][NextSystem]_vars

\* ------------------------------------------------------------ the builder
\* main.rs:98 `config::get_subscribe_request(&config.yellowstone_grpc.filters, commitment)`
Build ==
    /\ request = NoRequest
    /\ request' = get_subscribe_request(args, commitment, addrFile)
    /\ UNCHANGED <<pipeVars, repVars, args, commitment, addrFile, subscribed, metricsConfig,
                   interval_secs>>

\* The state before get_subscribe_request is called, for each input drawn.
InitBuild ==
    /\ \E k \in 1..Len(BuildInputs) : \E input \in BuildInputs[k] :
          /\ args = input.args
          /\ commitment = input.commitment
          /\ addrFile = input.addrFile
    /\ request = NoRequest
    /\ subscribed = 0
    /\ metricsConfig = RunMetricsConfig
    /\ interval_secs = IntervalSecs(RunMetricsConfig.interval)
    /\ now = 0
    /\ last_slot_check = 0
    /\ dPc = "recv"
    /\ dHeld = NoMsg
    /\ nRead = 0
    /\ eos = FALSE
    /\ queue = << >>
    /\ rxOpen = TRUE
    /\ wPc = "recv"
    /\ bus = << >>
    /\ exitCode = NoExit
    /\ tbItems = {}
    /\ failedId = 0
    /\ skipped = {}
    /\ shutdownsSent = 0
    /\ watermarks = << >>
    /\ lagLogs = 0
    /\ samples = << >>
    /\ lastRead = "none"
    /\ okSamples = 0
    /\ metrics = [c \in CounterNames |-> 0]
    /\ last = [c \in CounterNames |-> 0]
    /\ rPc = "tick"
    /\ rIdx = 0
    /\ delta = [c \in CounterNames |-> 0]
    /\ readPrev = [c \in CounterNames |-> 0]
    /\ readCur = [c \in CounterNames |-> 0]
    /\ sumDeltas = [c \in CounterNames |-> 0]
    /\ lastFailed = FALSE

NextBuild == Build

SpecBuild == InitBuild /\ [][NextBuild]_vars

\* ------------------------------------------- the worker on one transaction
\* The slots drawn: the last slot of an epoch, the first of the next and the one
\* after it, for each epoch up to MaxEpoch.
SlotSamples ==
    {k * EPOCH_SIZE + d : k \in 0..MaxEpoch, d \in {-1, 0, 1}} \ {-1}

\* A ProcessingMessage::Transaction whose update has the given slot.
TransactionAt(slot, hasTx, encOk) ==
    [ProcessingMessage(TransactionUpdate(1, hasTx, encOk)) EXCEPT !.slot = slot]

FormatInputs ==
    {TransactionAt(slot, TRUE, TRUE) : slot \in SlotSamples}
    \cup {TransactionAt(slot, TRUE, FALSE) : slot \in SlotSamples}
    \cup {TransactionAt(slot, FALSE, FALSE) : slot \in SlotSamples}

\* main has read one Transaction update and put its message on the queue.
InitFormat ==
    /\ \E msg \in FormatInputs :
          /\ tbItems = {msg}
          /\ queue = <<msg>>
    /\ nRead = 1
    /\ lastRead = "Item"
    /\ now = 0
    /\ last_slot_check = 0
    /\ dPc = "recv"
    /\ dHeld = NoMsg
    /\ eos = FALSE
    /\ rxOpen = TRUE
    /\ wPc = "recv"
    /\ bus = << >>
    /\ exitCode = NoExit
    /\ failedId = 0
    /\ skipped = {}
    /\ shutdownsSent = 0
    /\ watermarks = << >>
    /\ lagLogs = 0
    /\ samples = << >>
    /\ okSamples = 0
    /\ metrics = [c \in CounterNames |-> 0]
    /\ last = [c \in CounterNames |-> 0]
    /\ rPc = "tick"
    /\ rIdx = 0
    /\ delta = [c \in CounterNames |-> 0]
    /\ readPrev = [c \in CounterNames |-> 0]
    /\ readCur = [c \in CounterNames |-> 0]
    /\ sumDeltas = [c \in CounterNames |-> 0]
    /\ lastFailed = FALSE
    /\ Started

NextFormat ==
    \/ WorkerRecv
    \/ WorkerPublishReturn

\* transaction_processor on one Transaction message, over the slots drawn.
SpecFormat == InitFormat /\ [][NextFormat]_vars

\* ------------------------------------------------- main from the build on
\* Mutant: a failed build is not looked at, main goes on to subscribe.
MainBuildIgnoringErr ==
    /\ Alive
    /\ dPc = "build"
    /\ request' = get_subscribe_request(args, commitment, addrFile)
    /\ dPc' = "subscribe"
    /\ exitCode' = exitCode
    /\ UNCHANGED <<now, last_slot_check, dHeld, nRead, eos, queue, rxOpen, wPc, bus, tbItems,
                   failedId, skipped, shutdownsSent, watermarks, lagLogs, samples, lastRead, okSamples,
                   repVars, args, commitment, addrFile, subscribed, metricsConfig,
                   interval_secs>>

\* main.rs:98 `config::get_subscribe_request(..).await?`: the request is built; on
\* Err the `?` returns from main, which ends the process as every return of main does
\* (see MainExitStatus; without that panic the status of an Err from main is 1).
MainBuild ==
    /\ Alive
    /\ dPc = "build"
    /\ request' = get_subscribe_request(args, commitment, addrFile)
    /\ IF request'.ok
       THEN /\ dPc' = "subscribe"
            /\ exitCode' = exitCode
       ELSE /\ dPc' = "returned"
            /\ exitCode' = MainExitStatus
    /\ UNCHANGED <<now, last_slot_check, dHeld, nRead, eos, queue, rxOpen, wPc, bus, tbItems,
                   failedId, skipped, shutdownsSent, watermarks, lagLogs, samples, lastRead, okSamples,
                   repVars, args, commitment, addrFile, subscribed, metricsConfig,
                   interval_secs>>

\* main.rs:100-113 `subscribe_tx.send(subscribe_request).await?`, then the channel
\* is created, transaction_processor spawned and `last_slot_check = Instant::now()`
\* taken; a send that fails returns from main.
MainSubscribe ==
    /\ Alive
    /\ dPc = "subscribe"
    /\ \E ok \in BOOLEAN :
          IF ok
          THEN /\ subscribed' = subscribed + 1
               /\ dPc' = "recv"
               /\ wPc' = "recv"
               /\ last_slot_check' = now
               /\ exitCode' = exitCode
          ELSE /\ subscribed' = subscribed
               /\ dPc' = "returned"
               /\ wPc' = wPc
               /\ last_slot_check' = last_slot_check
               /\ exitCode' = MainExitStatus
    /\ UNCHANGED <<now, dHeld, nRead, eos, queue, rxOpen, bus, tbItems,
                   failedId, skipped, shutdownsSent, watermarks, lagLogs, samples, lastRead, okSamples,
                   repVars, args, commitment, addrFile, request, metricsConfig,
                   interval_secs>>

DispatcherRecvStartup == DispatcherRecvUpTo(MaxStartItems)

\* Configurations main is started with: two that build, and one failing in each
\* place get_subscribe_request can fail.
StartupInputs ==
    {[args |-> PipelineFilters, commitment |-> None, addrFile |-> NoFile],
     [args |-> [FullFilters EXCEPT !.accounts = Some(TRUE), !.transactions = Some(TRUE),
                                   !.accounts_account_path = Some("accounts.json")],
      commitment |-> Some("Confirmed"), addrFile |-> Ok(<<"Addr1">>)],
     [args |-> [PipelineFilters EXCEPT !.accounts = Some(TRUE),
                                       !.accounts_account_path = Some("accounts.json")],
      commitment |-> None, addrFile |-> NoFile],
     [args |-> [PipelineFilters EXCEPT !.accounts = Some(TRUE),
                                       !.accounts_memcmp = Some(<< <<"a", ",", "A">> >>)],
      commitment |-> None, addrFile |-> NoFile],
     [args |-> [PipelineFilters EXCEPT !.accounts = Some(TRUE),
                                       !.accounts_lamports = Some(<< <<"g", "e", ":", "5">> >>)],
      commitment |-> None, addrFile |-> NoFile],
     [args |-> [PipelineFilters EXCEPT !.accounts_data_slice = Some(<< <<"0", ",", "x">> >>)],
      commitment |-> None, addrFile |-> NoFile]}

\* The state when main reaches main.rs:98: the reporter was started (main.rs:68-78),
\* the stream is open, nothing was built or sent, and there is no worker yet.
InitStartup ==
    /\ \E input \in StartupInputs :
          /\ args = input.args
          /\ commitment = input.commitment
          /\ addrFile = input.addrFile
    /\ request = NoRequest
    /\ subscribed = 0
    /\ metricsConfig = RunMetricsConfig
    /\ interval_secs = IntervalSecs(RunMetricsConfig.interval)
    /\ now = 0
    /\ last_slot_check = 0
    /\ dPc = "build"
    /\ dHeld = NoMsg
    /\ nRead = 0
    /\ eos = FALSE
    /\ queue = << >>
    /\ rxOpen = TRUE
    /\ wPc = "unspawned"
    /\ bus = << >>
    /\ exitCode = NoExit
    /\ tbItems = {}
    /\ failedId = 0
    /\ skipped = {}
    /\ shutdownsSent = 0
    /\ watermarks = << >>
    /\ lagLogs = 0
    /\ samples = << >>
    /\ lastRead = "none"
    /\ okSamples = 0
    /\ metrics = [c \in CounterNames |-> 0]
    /\ last = [c \in CounterNames |-> 0]
    /\ rPc = "tick"
    /\ rIdx = 0
    /\ delta = [c \in CounterNames |-> 0]
    /\ readPrev = [c \in CounterNames |-> 0]
    /\ readCur = [c \in CounterNames |-> 0]
    /\ sumDeltas = [c \in CounterNames |-> 0]
    /\ lastFailed = FALSE

NextStartup ==
    \/ MainBuild
    \/ MainSubscribe
    \/ ClockTick
    \/ DispatcherRecvStartup
    \/ DispatcherSample
    \/ DispatcherSend
    \/ DispatcherShutdown
    \/ MainJoin
    \/ WorkerRecv
    \/ WorkerPublishReturn

\* main from the build of the request to its return.
SpecStartup == InitStartup /\ [][NextStartup]_vars

\* =================================================================== claims
\* The records whose producer.send has returned Ok.
Published == IF wPc = "publishing" THEN SubSeq(bus, 1, Len(bus) - 1) ELSE bus

BusIds == {bus[i].id : i \in 1..Len(bus)}

QueueIds == {queue[i].id : i \in {k \in 1..Len(queue) : queue[k] # Shutdown}}

\* Spec 4.2: Running while in the stream loop, Draining while sending the sentinel,
\* Stopped after it.
DispatcherState ==
    IF dPc \in {"recv", "sample", "send"} THEN "Running"
    ELSE IF dPc = "shutdown" THEN "Draining" ELSE "Stopped"

\* C1: the records handed to the bus are in the order in which the corresponding
\* Transaction/BlockMeta items were read from upstream (ids count the reads), each
\* is the record of an item that was read, and none appears twice.
C1_PublishOrder ==
    \A i \in 1..Len(bus) :
        /\ \E m \in tbItems : m.id = bus[i].id /\ bus[i].key = RecordKey(m)
        /\ \A j \in 1..Len(bus) : i < j => bus[i].id < bus[j].id

\* Three records of both kinds have been published, with an upstream item that was
\* not published between two of them.
C1_Witness ==
    /\ Len(Published) >= 3
    /\ \E i, j \in 1..Len(Published) :
          /\ Published[i].key[2] = "signature"
          /\ Published[j].key[2] = "blockhash"
    /\ \E i \in 1..(Len(Published) - 1) : Published[i + 1].id > Published[i].id + 1

\* C2: a Transaction/BlockMeta item read from upstream is never dropped: it is held by
\* the dispatcher, or on the queue, or was taken by the worker; the dispatcher holds
\* only the item it read last, and while it waits on a full queue it keeps that item
\* and reads nothing; and, the worker and the bus making progress, the held item is
\* eventually on the queue, unless a failed publish ends the process first.
C2_Backpressure ==
    /\ [](/\ dPc \in {"sample", "send"} => (dHeld \in tbItems /\ dHeld.id = nRead)
          /\ dPc \notin {"sample", "send"} => dHeld = NoMsg
          /\ \A m \in tbItems : m = dHeld \/ m.id \in QueueIds \cup BusIds \cup skipped)
    /\ [][(dPc = "send" /\ Len(queue) >= CHANNEL_SIZE) =>
             (dPc' = "send" /\ dHeld' = dHeld /\ nRead' = nRead /\ tbItems' = tbItems)]_vars
    /\ \A id \in 1..MaxItems :
          (dHeld # NoMsg /\ dHeld.id = id)
              ~> (id \in QueueIds \cup BusIds \cup skipped \/ ~Alive)

\* The dispatcher waits to enqueue on a full queue while the worker waits for the bus.
C2_Witness ==
    /\ Alive
    /\ dPc = "send"
    /\ ~HasCapacity(queue)
    /\ wPc = "publishing"
    /\ dHeld.id = nRead

\* C3: Shutdown is enqueued at most once, only by a dispatcher that has left Running,
\* and is the last message on the queue; the dispatcher state only moves Running ->
\* Draining -> Stopped; out of Running it reads no upstream item and places nothing on
\* the queue but the sentinel, and after the sentinel nothing at all.
C3_ShutdownLast ==
    /\ [](/\ shutdownsSent <= 1
          /\ shutdownsSent = 1 => DispatcherState = "Stopped"
          /\ \A i \in 1..Len(queue) : queue[i] = Shutdown => i = Len(queue))
    /\ [][/\ <<DispatcherState, DispatcherState'>> \in
                {<<"Running", "Running">>, <<"Running", "Draining">>,
                 <<"Draining", "Draining">>, <<"Draining", "Stopped">>,
                 <<"Stopped", "Stopped">>}
          /\ DispatcherState # "Running" =>
                /\ nRead' = nRead
                /\ tbItems' = tbItems
                /\ Len(queue') > Len(queue) =>
                      /\ queue' = Append(queue, Shutdown)
                      /\ DispatcherState = "Draining"
                      /\ shutdownsSent = 0
          /\ shutdownsSent' # shutdownsSent => DispatcherState = "Draining"
         ]_vars

\* The sentinel sits last on a full queue, behind a message, the dispatcher stopped.
C3_Witness ==
    /\ shutdownsSent = 1
    /\ Len(queue) = CHANNEL_SIZE
    /\ queue[1] # Shutdown
    /\ queue[Len(queue)] = Shutdown
    /\ DispatcherState = "Stopped"

\* C4: dequeuing the sentinel ends the worker loop; from then on the worker dequeues
\* nothing and publishes nothing, and at that point every Transaction/BlockMeta item
\* read from upstream has been handled (published, or passed over) and the queue is
\* empty.
C4_ShutdownStopsWorker ==
    /\ [](wPc = "done" =>
            /\ ~rxOpen
            /\ queue = << >>
            /\ \A m \in tbItems : m.id \in BusIds \cup skipped)
    /\ [][/\ (queue # << >> /\ Head(queue) = Shutdown /\ queue' = Tail(queue))
                => wPc' = "done"
          /\ wPc = "done" =>
                /\ wPc' = "done"
                /\ queue' = queue
                /\ bus' = bus
                /\ skipped' = skipped
         ]_vars

\* The worker has stopped on the sentinel after publishing and passing over messages.
C4_Witness ==
    /\ wPc = "done"
    /\ Len(bus) >= 2
    /\ skipped # {}

\* C5: once a producer.send has failed the process has exited with status 1, the
\* failed record is the last one ever handed to the bus and was handed to it once.
C5_PublishFailureFatal ==
    /\ failedId # 0 =>
          /\ exitCode = EXIT_FAILURE
          /\ bus[Len(bus)].id = failedId
          /\ Cardinality({i \in 1..Len(bus) : bus[i].id = failedId}) = 1
    /\ exitCode = EXIT_FAILURE => failedId # 0

\* A publish failed, after one that succeeded, while a message was queued and the
\* dispatcher held another.
C5_Witness ==
    /\ failedId # 0
    /\ exitCode = EXIT_FAILURE
    /\ queue # << >>
    /\ dPc = "send"
    /\ Len(bus) >= 2

\* The messages the worker has taken from the queue: read from upstream, and neither
\* held by the dispatcher nor on the queue.
Dequeued == {m \in tbItems : m # dHeld /\ m.id \notin QueueIds}

AttemptsFor(id) == {i \in 1..Len(bus) : bus[i].id = id}

ExpectedKey(m) ==
    IF m.kind = "Transaction" THEN <<"bs58", "signature", m.id>>
    ELSE <<"bs58", "blockhash", m.id>>

Formattable(m) == m.kind = "BlockMetadata" \/ (m.hasTx /\ m.encOk)

HasKey(m) == m.kind = "BlockMetadata" \/ m.hasTx

\* C6 as stated: every dequeued message, a Transaction without inner transaction
\* included, has exactly one publish attempt under its key, with the empty record when
\* formatting fails; the attempts are as many as the dequeued messages.
C6_Original ==
    /\ \A m \in Dequeued :
          /\ Cardinality(AttemptsFor(m.id)) = 1
          /\ \A i \in AttemptsFor(m.id) :
                /\ bus[i].key = ExpectedKey(m)
                /\ Formattable(m) <=> bus[i].value # EmptyJson
    /\ Len(bus) = Cardinality(Dequeued)

\* C6, amended: a dequeued BlockMetadata message, or Transaction message whose inner
\* transaction is present, has exactly one publish attempt, under its key, with the
\* empty record exactly when formatting fails; a dequeued Transaction message without
\* inner transaction has no publish attempt; the attempts are as many as the dequeued
\* messages of the first sort.
C6_PublishPerKeyedMessage ==
    /\ \A m \in Dequeued :
          IF HasKey(m)
          THEN /\ Cardinality(AttemptsFor(m.id)) = 1
               /\ m.id \notin skipped
               /\ \A i \in AttemptsFor(m.id) :
                     /\ bus[i].key = ExpectedKey(m)
                     /\ Formattable(m) <=> bus[i].value # EmptyJson
          ELSE /\ AttemptsFor(m.id) = {}
               /\ m.id \in skipped
    /\ Len(bus) = Cardinality({m \in Dequeued : HasKey(m)})

\* An empty record and a full one have been handed to the bus and a Transaction
\* without inner transaction has been passed over.
C6_Witness ==
    /\ \E i \in 1..Len(bus) : bus[i].value = EmptyJson
    /\ \E i \in 1..Len(bus) : bus[i].value # EmptyJson
    /\ skipped # {}

\* C7 as stated: when main has returned, the stream had ended, the sentinel was
\* enqueued, the worker loop has ended, every Transaction/BlockMeta item read was
\* published, and the exit status is 0.
C7_CleanExit ==
    dPc = "returned" =>
        /\ eos
        /\ shutdownsSent = 1
        /\ wPc = "done"
        /\ \A m \in tbItems : \E i \in 1..Len(Published) : Published[i].id = m.id
        /\ exitCode = EXIT_SUCCESS

\* The items that are somewhere in the pipeline: read, and not yet published or
\* passed over by the worker.
InFlight == {m \in tbItems : m.id \notin skipped /\ \A i \in 1..Len(Published) : Published[i].id # m.id}

\* C8 as stated: the queue holds at most CHANNEL_SIZE messages and the items read
\* from upstream and not published are at most CHANNEL_SIZE + 2.
C8_Original ==
    /\ Len(queue) <= CHANNEL_SIZE
    /\ Cardinality(tbItems) - Len(Published) <= CHANNEL_SIZE + 2

\* C8, amended: the queue holds at most CHANNEL_SIZE messages; the items read from
\* upstream and not yet published or passed over by the worker are at most
\* CHANNEL_SIZE + 2, and each is in one of three places: held by the dispatcher, on
\* the queue, or in the worker's pending publish.
C8_BoundedInFlight ==
    /\ Len(queue) <= CHANNEL_SIZE
    /\ Cardinality(InFlight) <= CHANNEL_SIZE + 2
    /\ \A m \in InFlight :
          \/ m = dHeld
          \/ m.id \in QueueIds
          \/ wPc = "publishing" /\ bus[Len(bus)].id = m.id

\* The pipeline is as full as it gets: a full queue, the dispatcher waiting to
\* enqueue one more, the worker waiting for a publish.
C8_Witness ==
    /\ Alive
    /\ Len(queue) = CHANNEL_SIZE
    /\ dPc = "send"
    /\ wPc = "publishing"
    /\ Cardinality(InFlight) = CHANNEL_SIZE + 2

\* Whether each of the three loops can take its next step.
DispatcherCanStep ==
    ENABLED (DispatcherRecv \/ DispatcherSample \/ DispatcherSend \/ DispatcherShutdown \/ MainJoin)

WorkerCanStep == ENABLED (WorkerRecv \/ WorkerPublishReturn)

ReporterCanStep == ENABLED (ReporterTick \/ ReporterSendReturn)

\* C9 as stated: while a publish is pending the dispatcher never blocks, and the
\* reporter goes on; a pending watermark query or report leaves the other loops able
\* to step.
C9_Original ==
    Alive =>
        /\ wPc = "publishing" => (DispatcherState = "Running" => DispatcherCanStep)
        /\ wPc = "publishing" => ReporterCanStep
        /\ rPc = "send" => (DispatcherState = "Running" => DispatcherCanStep)

\* C9, amended: whether a loop can step depends on its own position and on the queue
\* alone. The reporter can always step. The worker can step unless it waits on an
\* empty queue. The dispatcher can step unless it waits to enqueue on a full queue, or
\* waits for the worker to end: so while a publish is pending it goes on reading and
\* enqueuing until the queue holds CHANNEL_SIZE messages, and then suspends.
C9_StallsOnlyThroughQueue ==
    Alive =>
        /\ ReporterCanStep
        /\ WorkerCanStep <=> (wPc = "publishing" \/ (wPc = "recv" /\ queue # << >>))
        /\ DispatcherCanStep <=>
              \/ dPc \in {"recv", "sample"}
              \/ dPc \in {"send", "shutdown"} /\ Len(queue) < CHANNEL_SIZE
              \/ dPc = "join" /\ wPc = "done"

\* One publish is pending and has been all along; behind it the dispatcher has filled
\* the queue and now waits to enqueue, and the reporter is in the middle of a tick.
C9_Witness ==
    /\ Alive
    /\ wPc = "publishing"
    /\ Len(bus) = 1
    /\ skipped = {}
    /\ Len(queue) = CHANNEL_SIZE
    /\ dPc = "send"
    /\ ~DispatcherCanStep
    /\ rPc = "send"

\* C10: for each counter the delta computed at a tick is current - previous when
\* current >= previous and current otherwise, previous being the value read at the
\* tick before (0 before the first); it is never negative and never above current.
\* With previous 0 the reads 5, 5, 12 give 5, 0, 7, and 3 read after 12 gives 3.
C10_DeltaRule ==
    \A c \in CounterNames :
        /\ delta[c] = IF readCur[c] >= readPrev[c]
                      THEN readCur[c] - readPrev[c] ELSE readCur[c]
        /\ delta[c] >= 0
        /\ delta[c] <= readCur[c]
        /\ (readPrev[c] = 0 /\ readCur[c] = 5) => delta[c] = 5
        /\ (readPrev[c] = 5 /\ readCur[c] = 5) => delta[c] = 0
        /\ (readPrev[c] = 5 /\ readCur[c] = 12) => delta[c] = 7
        /\ (readPrev[c] = 12 /\ readCur[c] = 3) => delta[c] = 3

\* A tick has read 3 from the transactions counter after the tick before read 12,
\* and is reporting the delta 3, while another counter went up.
C10_Witness ==
    /\ rPc = "send"
    /\ readPrev["transactions"] = 12
    /\ readCur["transactions"] = 3
    /\ delta["transactions"] = 3
    /\ readCur["errors"] > readPrev["errors"]

\* C11 as stated: a tick issues its three reports whatever their outcome: a tick
\* starts with the first report, a report that has returned is followed by the next
\* one of the same tick, and the reporter goes back to its timer only after the third.
C11_AllReportsIssued ==
    [][/\ (rPc = "tick" /\ rPc' = "send") => rIdx' = 1
       /\ (rPc = "send" /\ rIdx < Len(Counters) /\ <<rPc, rIdx>>' # <<rPc, rIdx>>)
             => (rPc' = "send" /\ rIdx' = rIdx + 1)
       /\ (rPc = "send" /\ rPc' = "tick") => rIdx = Len(Counters)
      ]_vars

\* The seven categories: the enable flag of each and its mapping in the request built.
Categories ==
    <<[flag |-> args.accounts, map |-> request.v.accounts],
      [flag |-> args.slots, map |-> request.v.slots],
      [flag |-> args.transactions, map |-> request.v.transactions],
      [flag |-> args.transactions_status, map |-> request.v.transactions_status],
      [flag |-> args.entries, map |-> request.v.entry],
      [flag |-> args.blocks, map |-> request.v.blocks],
      [flag |-> args.blocks_meta, map |-> request.v.blocks_meta]>>

\* C12: when the build succeeds, each of the seven categories whose flag is true has
\* exactly one entry in its mapping, under the key "client", and each category whose
\* flag is false or absent has an empty mapping.
C12_OneEntryPerEnabledCategory ==
    request.ok =>
        \A i \in 1..7 :
            IF Categories[i].flag = Some(TRUE)
            THEN DOMAIN Categories[i].map = {"client"}
            ELSE DOMAIN Categories[i].map = {}

\* A request was built from flags that are true, false and absent, with the options
\* of the categories set.
C12_Witness ==
    /\ request.ok
    /\ args.accounts = Some(TRUE)
    /\ args.slots = None
    /\ args.transactions = Some(TRUE)
    /\ args.blocks = Some(FALSE)
    /\ args.blocks_meta = Some(TRUE)
    /\ args.ping = Some(1)
    /\ DOMAIN request.v.accounts = {"client"}
    /\ request.v.blocks = EmptyMap

\* get_subscribe_request has returned.
Built == request # NoRequest

\* How many times a character occurs in a string.
Occurrences(s, c) == Cardinality({i \in 1..Len(s) : s[i] = c})

\* The part of a string before the first occurrence of a character.
Before(s, c) ==
    SubSeq(s, 1, (CHOOSE k \in 1..Len(s) : s[k] = c /\ \A j \in 1..(k - 1) : s[j] # c) - 1)

\* The digits of a digit string from its first digit other than 0 on.
Significant(digits) ==
    IF \A i \in 1..Len(digits) : digits[i] = "0" THEN << >>
    ELSE SubSeq(digits, CHOOSE k \in 1..Len(digits) :
                            digits[k] # "0" /\ \A j \in 1..(k - 1) : digits[j] = "0",
                Len(digits))

\* A digit string standing for a number of at most 18446744073709551615: fewer than
\* 20 significant digits, or 20 of which the first to differ from that number's, if
\* any, is the smaller.
FitsU64(digits) ==
    LET sig == Significant(digits)
        top == <<1, 8, 4, 4, 6, 7, 4, 4, 0, 7, 3, 7, 0, 9, 5, 5, 1, 6, 1, 5>>
        val(c) == CHOOSE n \in 0..9 : ToString(n) = c
    IN  \/ Len(sig) < 20
        \/ /\ Len(sig) = 20
           /\ \A i \in 1..20 :
                 (\A j \in 1..(i - 1) : val(sig[j]) = top[j]) => val(sig[i]) <= top[i]

\* A decimal numeral of an unsigned 64-bit integer: digits, after an optional '+',
\* standing for a number of at most u64::MAX.
IsNumeral(s) ==
    LET digits == IF s # << >> /\ s[1] = "+" THEN Tail(s) ELSE s IN
    /\ digits # << >>
    /\ \A i \in 1..Len(digits) :
          digits[i] \in {"0", "1", "2", "3", "4", "5", "6", "7", "8", "9"}
    /\ FitsU64(digits)

\* offset,data: exactly one comma, after a numeral.
IsOffsetData(e) == Occurrences(e, ",") = 1 /\ IsNumeral(Before(e, ","))

\* The memcmp filters of the account filter built.
MemcmpBuilt ==
    SelectSeq(request.v.accounts["client"].filters, LAMBDA f : f.filter = "Memcmp")

\* C13 as stated: with accounts enabled the build succeeds only if every memcmp entry
\* is offset,data with one comma and a numeral for offset; "50," and "abc,AAA" make it
\* fail, and "0,3Gx9" gives a memcmp filter with offset 0.
C13_Original ==
    (Built /\ args.accounts = Some(TRUE)) =>
        LET entries == Flatten(args.accounts_memcmp) IN
        /\ request.ok => \A i \in 1..Len(entries) : IsOffsetData(entries[i])
        /\ (\E i \in 1..Len(entries) : entries[i] = <<"5", "0", ",">>) => ~request.ok
        /\ (\E i \in 1..Len(entries) : entries[i] = <<"a", "b", "c", ",", "A", "A", "A">>)
              => ~request.ok
        /\ entries = <<<<"0", ",", "3", "G", "x", "9">>>> =>
              /\ request.ok
              /\ Len(MemcmpBuilt) = 1
              /\ MemcmpBuilt[1].offset = 0

\* C13, amended: with accounts enabled the build succeeds only if every memcmp entry
\* is offset,data with one comma and a numeral for offset, and it does succeed on such
\* entries when no other field is set, with one memcmp filter per entry; the data may
\* be empty: "50," gives a memcmp filter with offset 50 and no data, "abc,AAA" makes
\* the build fail, and "0,3Gx9" gives a memcmp filter with offset 0.
C13_MemcmpSyntax ==
    (Built /\ args.accounts = Some(TRUE)) =>
        LET entries == Flatten(args.accounts_memcmp) IN
        /\ request.ok =>
              /\ \A i \in 1..Len(entries) : IsOffsetData(entries[i])
              /\ Len(MemcmpBuilt) = Len(entries)
        /\ (/\ \A i \in 1..Len(entries) : IsOffsetData(entries[i])
            /\ args.accounts_lamports = None
            /\ args.accounts_data_slice = None
            /\ args.accounts_account_path = None) => request.ok
        /\ entries = <<<<"5", "0", ",">>>> =>
              /\ request.ok
              /\ MemcmpBuilt = <<[filter |-> "Memcmp", offset |-> 50, base58 |-> << >>]>>
        /\ (\E i \in 1..Len(entries) : entries[i] = <<"a", "b", "c", ",", "A", "A", "A">>)
              => ~request.ok
        /\ entries = <<<<"0", ",", "3", "G", "x", "9">>>> =>
              /\ request.ok
              /\ Len(MemcmpBuilt) = 1
              /\ MemcmpBuilt[1].offset = 0
              /\ MemcmpBuilt[1].base58 = <<"3", "G", "x", "9">>

\* A request was built from the entries "0,3Gx9" and "50,", in that order.
C13_Witness ==
    /\ Built
    /\ request.ok
    /\ args.accounts = Some(TRUE)
    /\ args.accounts_memcmp = Some(<<<<"0", ",", "3", "G", "x", "9">>, <<"5", "0", ",">>>>)
    /\ Len(MemcmpBuilt) = 2
    /\ MemcmpBuilt[2].offset = 50

\* The part of a string after the first occurrence of a character.
After(s, c) ==
    SubSeq(s, (CHOOSE k \in 1..Len(s) : s[k] = c /\ \A j \in 1..(k - 1) : s[j] # c) + 1, Len(s))

\* The comparator variant each comparator name stands for.
ComparatorNames == {<<"e", "q">>, <<"n", "e">>, <<"l", "t">>, <<"g", "t">>}

VariantOf(cmp) ==
    IF cmp = <<"e", "q">> THEN "Eq" ELSE IF cmp = <<"n", "e">> THEN "Ne"
    ELSE IF cmp = <<"l", "t">> THEN "Lt" ELSE "Gt"

\* cmp:value: exactly one colon, between a comparator name and a numeral.
IsCmpValue(e) ==
    /\ Occurrences(e, ":") = 1
    /\ Before(e, ":") \in ComparatorNames
    /\ IsNumeral(After(e, ":"))

\* The lamports filters of the account filter built.
LamportsBuilt ==
    SelectSeq(request.v.accounts["client"].filters, LAMBDA f : f.filter = "Lamports")

\* C14: with accounts enabled the build succeeds only if every lamports entry is
\* cmp:value with one colon, cmp one of eq, ne, lt, gt and value a numeral; it then
\* has one lamports filter per entry, in order, of the variant cmp names; on such
\* entries, no other field failing, it does succeed. "bogus:5" and "eq:notanumber"
\* make the build fail; "eq:100" gives Eq(100) and "gt:0" gives Gt(0).
C14_LamportsSyntax ==
    (Built /\ args.accounts = Some(TRUE)) =>
        LET entries == Flatten(args.accounts_lamports) IN
        /\ request.ok =>
              /\ \A i \in 1..Len(entries) : IsCmpValue(entries[i])
              /\ Len(LamportsBuilt) = Len(entries)
              /\ \A i \in 1..Len(entries) :
                    LamportsBuilt[i].cmp = VariantOf(Before(entries[i], ":"))
        /\ (/\ \A i \in 1..Len(entries) : IsCmpValue(entries[i])
            /\ args.accounts_memcmp = None
            /\ args.accounts_data_slice = None
            /\ args.accounts_account_path = None) => request.ok
        /\ (\E i \in 1..Len(entries) : entries[i] = <<"b", "o", "g", "u", "s", ":", "5">>)
              => ~request.ok
        /\ (\E i \in 1..Len(entries) :
                entries[i] = <<"e", "q", ":", "n", "o", "t", "a", "n", "u", "m", "b", "e", "r">>)
              => ~request.ok
        /\ entries = <<<<"e", "q", ":", "1", "0", "0">>>> =>
              /\ request.ok
              /\ LamportsBuilt = <<[filter |-> "Lamports", cmp |-> "Eq", value |-> 100]>>
        /\ entries = <<<<"g", "t", ":", "0">>>> =>
              /\ request.ok
              /\ LamportsBuilt = <<[filter |-> "Lamports", cmp |-> "Gt", value |-> 0]>>

\* A request was built from the entries "lt:3" and "gt:0", in that order, after the
\* datasize and token account state filters.
C14_Witness ==
    /\ Built
    /\ request.ok
    /\ args.accounts = Some(TRUE)
    /\ args.accounts_lamports = Some(<<<<"l", "t", ":", "3">>, <<"g", "t", ":", "0">>>>)
    /\ LamportsBuilt = <<[filter |-> "Lamports", cmp |-> "Lt", value |-> 3],
                         [filter |-> "Lamports", cmp |-> "Gt", value |-> 0]>>
    /\ Len(request.v.accounts["client"].filters) = 4

\* The inline addresses and those of the file, as supplied.
InlineAddresses == unwrap_or(args.accounts_account, << >>)

FileSupplied == args.accounts_account_path # None

\* C15: with accounts enabled and the build succeeding, the address list of the
\* account filter is the inline list followed by the list of the file, each as
\* supplied (same order, nothing dropped, nothing deduplicated); with one source only
\* it is that source's list.
C15_AddressesInlineThenFile ==
    (Built /\ request.ok /\ args.accounts = Some(TRUE)) =>
        LET account == request.v.accounts["client"].account
            n == Len(InlineAddresses)
        IN  IF FileSupplied
            THEN /\ Len(account) = n + Len(addrFile.v)
                 /\ \A i \in 1..n : account[i] = InlineAddresses[i]
                 /\ \A i \in 1..Len(addrFile.v) : account[n + i] = addrFile.v[i]
                 /\ args.accounts_account = None => account = addrFile.v
            ELSE account = InlineAddresses

\* Both sources were supplied, in different orders and with an address in common.
C15_Witness ==
    /\ Built
    /\ request.ok
    /\ args.accounts = Some(TRUE)
    /\ args.accounts_account = Some(<<"Addr1", "Addr2">>)
    /\ FileSupplied
    /\ addrFile = Ok(<<"Addr2", "Addr1">>)
    /\ request.v.accounts["client"].account = <<"Addr1", "Addr2", "Addr2", "Addr1">>

\* C16: reading a transport-level error from the stream changes nothing in the
\* pipeline: the queue, the held item, the sample timer, the samples taken, the
\* records published and the process status are as before and the dispatcher stays
\* Running, at stream.next(), the stream not ended; the item read right after an error
\* is handled as any other: a Transaction/BlockMeta item is kept to be enqueued.
C16_TransportErrorIgnored ==
    /\ [][(nRead' # nRead /\ lastRead' = "Err") =>
             /\ nRead' = nRead + 1
             /\ queue' = queue
             /\ dHeld' = dHeld
             /\ tbItems' = tbItems
             /\ last_slot_check' = last_slot_check
             /\ samples' = samples
             /\ lagLogs' = lagLogs
             /\ bus' = bus
             /\ shutdownsSent' = shutdownsSent
             /\ exitCode' = exitCode
             /\ eos' = eos
             /\ DispatcherState' = DispatcherState
             /\ dPc' = "recv"]_vars
    /\ [](lastRead = "Err" => (DispatcherState = "Running" /\ dPc = "recv" /\ ~eos))
    /\ [][(lastRead = "Err" /\ nRead' # nRead /\ lastRead' = "Item") =>
             /\ dHeld' \in tbItems'
             /\ dHeld'.id = nRead'
             /\ dPc' \in {"sample", "send"}]_vars

\* An error was read while a message was queued and records had been published; the
\* dispatcher is about to read on.
C16_Witness ==
    /\ Alive
    /\ lastRead = "Err"
    /\ dPc = "recv"
    /\ queue # << >>
    /\ Len(bus) >= 1
    /\ nRead < MaxItems

\* C17: reading an update of a kind other than Transaction and BlockMeta changes
\* nothing: the queue, the held item, the sample timer, the watermark samples taken,
\* the metrics counters and the records published are as before and the dispatcher
\* is back at stream.next(); no record is ever published for such an update: every
\* record published is that of a Transaction/BlockMeta item, and the update is none.
C17_OtherKindsDiscarded ==
    /\ [][(nRead' # nRead /\ lastRead' = "Other") =>
             /\ nRead' = nRead + 1
             /\ queue' = queue
             /\ dHeld' = dHeld
             /\ tbItems' = tbItems
             /\ last_slot_check' = last_slot_check
             /\ samples' = samples
             /\ lagLogs' = lagLogs
             /\ metrics' = metrics
             /\ bus' = bus
             /\ exitCode' = exitCode
             /\ dPc' = "recv"]_vars
    /\ [](/\ lastRead = "Other" => \A m \in tbItems : m.id # nRead
          /\ \A i \in 1..Len(bus) : \E m \in tbItems : m.id = bus[i].id
          /\ \A i \in 1..Len(queue) : queue[i] = Shutdown \/ queue[i] \in tbItems
          /\ \A m \in tbItems : m.id <= nRead)

\* An update of another kind was read while a message was queued and the sample
\* timer had run out.
C17_Witness ==
    /\ Alive
    /\ lastRead = "Other"
    /\ dPc = "recv"
    /\ queue # << >>
    /\ SampleDue(now, last_slot_check)
    /\ samples = << >>

\* C18: an enqueue that fails because the receiver is gone ends the loop: the
\* dispatcher leaves Running with the queue, the reads and the process status as they
\* were; from then on it reads no upstream item; its one attempt to enqueue Shutdown
\* places nothing and is followed by the return of main whatever its outcome; with
\* the receiver gone the dispatcher can always take its next step; and the run ends as
\* a run without enqueue failure does, not with the status of a fatal error.
C18_StopsOnClosedQueue ==
    /\ [][(dPc = "send" /\ ~rxOpen /\ dPc' # dPc) =>
             /\ dPc' = "shutdown"
             /\ queue' = queue
             /\ nRead' = nRead
             /\ exitCode' = exitCode]_vars
    /\ [][(~rxOpen /\ DispatcherState # "Running") =>
             /\ DispatcherState' # "Running"
             /\ nRead' = nRead
             /\ tbItems' = tbItems
             /\ queue' = queue
             /\ shutdownsSent' = shutdownsSent]_vars
    /\ [][(dPc = "shutdown" /\ ~rxOpen /\ dPc' # dPc) =>
             (dPc' = "join" /\ exitCode' = exitCode)]_vars
    /\ []((Alive /\ ~rxOpen /\ dPc \in {"send", "shutdown", "join"}) => DispatcherCanStep)
    /\ []((dPc = "returned" /\ shutdownsSent = 0) =>
             (failedId = 0 /\ exitCode # EXIT_FAILURE /\ exitCode = MainExitStatus))

\* The worker was lost, the dispatcher's enqueue failed while upstream had more to
\* give, no sentinel was placed, and main has returned.
C18_Witness ==
    /\ ~rxOpen
    /\ wPc = "done"
    /\ shutdownsSent = 0
    /\ ~eos
    /\ nRead < MaxItems
    /\ dPc = "returned"

\* C19: a lag sample is begun only by a dispatcher that has just read a
\* Transaction/BlockMeta item and found 5 seconds elapsed since the timer was set;
\* get_slot calls return only within a sample; every sample ends, whatever its three
\* queries returned, by setting the timer to the time it is then, and nothing else
\* sets the timer; so the first sample begins at least 5 seconds after startup and
\* any two samples begin at least 5 seconds apart.
C19_SampleOncePerWindow ==
    /\ [](/\ \A i \in 1..Len(samples) : samples[i] >= SAMPLE_PERIOD
          /\ \A i, j \in 1..Len(samples) : i < j => samples[j] - samples[i] >= SAMPLE_PERIOD
          /\ samples = << >> => last_slot_check = 0
          /\ dPc = "sample" =>
                /\ dHeld \in tbItems
                /\ Len(watermarks) < 3
                /\ samples # << >>
                /\ samples[Len(samples)] - last_slot_check >= SAMPLE_PERIOD
                /\ now >= samples[Len(samples)]
          /\ dPc # "sample" =>
                /\ watermarks = << >>
                /\ samples # << >> => last_slot_check >= samples[Len(samples)])
    /\ [][/\ samples' # samples =>
                /\ dPc = "recv"
                /\ dPc' = "sample"
                /\ dHeld' \in tbItems'
                /\ samples' = Append(samples, now)
                /\ now - last_slot_check >= SAMPLE_PERIOD
          /\ watermarks' # watermarks => dPc = "sample"
          /\ (dPc = "sample" /\ dPc' # "sample") =>
                /\ Len(watermarks) = 2
                /\ last_slot_check' = now
          /\ (last_slot_check' # last_slot_check \/ lagLogs' # lagLogs \/ okSamples' # okSamples)
                => (dPc = "sample" /\ dPc' = "send")
          /\ (dPc = "recv" /\ dPc' = "send") => now - last_slot_check < SAMPLE_PERIOD
         ]_vars

\* Two samples were taken, one whose queries all succeeded and one where a query
\* failed; time passed between the queries of the second, so the timer was set later
\* than that sample began; and an item read since was enqueued without a sample.
C19_Witness ==
    /\ Len(samples) = 2
    /\ last_slot_check > samples[2]
    /\ lagLogs = 1
    /\ dPc = "recv"
    /\ \E m \in tbItems : m.id = nRead
    /\ Cardinality(tbItems) = 3

\* C20: the lag line is logged for a sample if and only if its three queries
\* succeeded, so the lines logged are as many as the samples whose queries all
\* succeeded, and a line is logged only by the return of the third query after two
\* that succeeded; and each query of a sample, whatever it returned, leaves the item
\* held, the queue and the process as they were, the third being followed by the send
\* of that item, which places on the queue the very message a read without sample
\* would have placed.
C20_LagLogAllOrNothing ==
    /\ [](lagLogs = okSamples /\ lagLogs <= Len(samples))
    /\ [][/\ (dPc = "sample" /\ watermarks' # watermarks) =>
                /\ dPc' = IF Len(watermarks) = 2 THEN "send" ELSE "sample"
                /\ dHeld' = dHeld
                /\ queue' = queue
                /\ tbItems' = tbItems
                /\ nRead' = nRead
                /\ exitCode' = exitCode
                /\ lagLogs' = lagLogs + (okSamples' - okSamples)
          /\ lagLogs' # lagLogs =>
                /\ lagLogs' = lagLogs + 1
                /\ watermarks = <<TRUE, TRUE>>
          /\ (dPc = "recv" /\ nRead' # nRead /\ lastRead' = "Item") =>
                /\ dPc' \in {"sample", "send"}
                /\ dHeld'.id = nRead'
                /\ dHeld'.kind \in {"Transaction", "BlockMetadata"}
                /\ tbItems' = tbItems \cup {dHeld'}
          /\ (dPc = "send" /\ dPc' = "recv") => queue' = Append(queue, dHeld)
         ]_vars

\* A sample whose queries did not all succeed and one whose queries did; the item
\* that triggered the second is on the queue.
C20_Witness ==
    /\ Len(samples) = 2
    /\ lagLogs = 1
    /\ okSamples = 1
    /\ queue # << >>
    /\ queue[Len(queue)] # Shutdown
    /\ queue[Len(queue)].id = nRead
    /\ now = samples[2]

\* C21: sink errors never stop the reporter: whenever a report has failed, whatever
\* failed before it, the loop goes on to the next tick and attempts its first report.
C21_ReporterSurvivesSinkErrors ==
    lastFailed ~> (rPc = "send" /\ rIdx = 1 /\ Alive)

\* The first report of a tick is being attempted, and the report that returned last,
\* in the tick before, had failed; the counters moved between the two ticks.
C21_Witness ==
    /\ lastFailed
    /\ rPc = "send"
    /\ rIdx = 1
    /\ readCur["transactions"] > readPrev["transactions"]

\* The Transaction messages transaction_processor has taken from the queue.
TransactionsDequeued == {m \in Dequeued : m.kind = "Transaction"}

\* The Transaction records whose producer.send has returned.
TransactionsPublished == {i \in 1..Len(Published) : Published[i].key[2] = "signature"}

\* C22 as stated: with metrics enabled the transactions counter counts the
\* Transaction messages the worker has processed: it is at least the number of
\* Transaction records published and at most the number of Transaction messages
\* taken from the queue.
C22_CountersCountTransactions ==
    metricsConfig.enabled =>
        /\ metrics["transactions"] >= Cardinality(TransactionsPublished)
        /\ metrics["transactions"] <= Cardinality(TransactionsDequeued)

\* Something of the pipeline has happened: an upstream item or the end of the stream
\* was consumed, a message was enqueued, or a record was handed to the bus.
PipelineActed ==
    \/ nRead > 0
    \/ eos
    \/ lastRead # "none"
    \/ queue # << >>
    \/ shutdownsSent > 0
    \/ bus # << >>

\* C23: the request is sent upstream at most once, only after a build that
\* succeeded, and it has been sent, once, whenever main is in or past its stream
\* loop or anything of the pipeline has happened; after a build that failed the
\* process has ended with a non-zero status, and no request was sent, no item
\* consumed, no message enqueued and no record published.
C23_SubscribeOnceAfterBuild ==
    /\ subscribed \in {0, 1}
    /\ subscribed = 1 => (request # NoRequest /\ request.ok)
    /\ (PipelineActed \/ dPc \in {"recv", "sample", "send", "shutdown", "join"})
          => subscribed = 1
    /\ (request # NoRequest /\ ~request.ok)
          => /\ exitCode # NoExit
             /\ exitCode # EXIT_SUCCESS
             /\ subscribed = 0
             /\ ~PipelineActed
             /\ wPc = "unspawned"

\* A build failed on a malformed data slice and the process has ended; nothing was
\* sent or read.
C23_Witness ==
    /\ request # NoRequest
    /\ ~request.ok
    /\ args.accounts_data_slice # None
    /\ exitCode = MainExitStatus
    /\ subscribed = 0
    /\ nRead = 0

\* The number a decimal numeral stands for.
RECURSIVE NumeralValue(_)
NumeralValue(s) ==
    IF s = << >> THEN 0
    ELSE IF s[1] = "+" THEN NumeralValue(Tail(s))
    ELSE 10 * NumeralValue(SubSeq(s, 1, Len(s) - 1))
         + (CHOOSE n \in 0..9 : ToString(n) = s[Len(s)])

\* offset,length: exactly one comma, between two numerals.
IsOffsetLength(e) ==
    /\ Occurrences(e, ",") = 1
    /\ IsNumeral(Before(e, ","))
    /\ IsNumeral(After(e, ","))

\* C24: the build succeeds only if every accounts_data_slice entry is offset,length
\* with one comma and two numerals; the request then has one range per entry, in the
\* order of the entries, with the offset and length the entry gives; on such entries,
\* nothing else failing, the build does succeed. "0,32" and "8,8" give the ranges
\* (0, 32) and (8, 8); "10", "1,2,3" and "a,5" make the build fail.
C24_DataSliceSyntax ==
    Built =>
        LET entries == Flatten(args.accounts_data_slice) IN
        /\ request.ok =>
              /\ \A i \in 1..Len(entries) : IsOffsetLength(entries[i])
              /\ Len(request.v.accounts_data_slice) = Len(entries)
              /\ \A i \in 1..Len(entries) :
                    request.v.accounts_data_slice[i] =
                        [offset |-> NumeralValue(Before(entries[i], ",")),
                         length |-> NumeralValue(After(entries[i], ","))]
        /\ (/\ \A i \in 1..Len(entries) : IsOffsetLength(entries[i])
            /\ args.accounts_memcmp = None
            /\ args.accounts_lamports = None
            /\ args.accounts_account_path = None) => request.ok
        /\ entries = <<<<"0", ",", "3", "2">>, <<"8", ",", "8">>>> =>
              /\ request.ok
              /\ request.v.accounts_data_slice =
                    <<[offset |-> 0, length |-> 32], [offset |-> 8, length |-> 8]>>
        /\ (\E i \in 1..Len(entries) :
                entries[i] \in {<<"1", "0">>, <<"1", ",", "2", ",", "3">>, <<"a", ",", "5">>})
              => ~request.ok

\* A request was built from the entries "8,8" and "0,32", in that order.
C24_Witness ==
    /\ Built
    /\ request.ok
    /\ args.accounts_data_slice = Some(<<<<"8", ",", "8">>, <<"0", ",", "3", "2">>>>)
    /\ request.v.accounts_data_slice =
          <<[offset |-> 8, length |-> 8], [offset |-> 0, length |-> 32]>>

\* What reading the address file can give: no file, no JSON, a list.
AnyFile == {NoFile, Err("expected value at line 1 column 1"), Ok(<<"Addr1">>)}

AccountsOff == args.accounts \in {None, Some(FALSE)}

\* C27: with accounts disabled or absent the build fails exactly when a data-slice
\* entry is malformed, whatever accounts_memcmp and accounts_lamports hold; its
\* accounts mapping is empty, and its result is the same whatever the address file
\* holds or whether it can be read at all. A malformed data-slice entry makes the
\* build fail with accounts enabled, disabled or absent.
C27_AccountChecksOnlyWhenEnabled ==
    Built =>
        LET slices == Flatten(args.accounts_data_slice) IN
        /\ AccountsOff =>
              /\ request.ok <=> \A i \in 1..Len(slices) : IsOffsetLength(slices[i])
              /\ request.ok => request.v.accounts = EmptyMap
              /\ \A file \in AnyFile :
                    get_subscribe_request(args, commitment, file) = request
        /\ (\E i \in 1..Len(slices) : ~IsOffsetLength(slices[i])) => ~request.ok

\* A request was built with accounts set to false from a configuration whose memcmp
\* entry "abc,AAA" would not pass with accounts enabled.
C27_Witness ==
    /\ Built
    /\ request.ok
    /\ args.accounts = Some(FALSE)
    /\ args.accounts_memcmp = Some(<<<<"a", "b", "c", ",", "A", "A", "A">>>>)
    /\ request.v.accounts = EmptyMap

\* The reporter exists: start() has computed its interval and spawned its loop.
ReporterRunning == rPc \notin {"new", "off"}

\* C25: the interval the reporter's timer is made with is the larger of the
\* configured interval and 10 seconds: 10 for every configured value below 10, 0
\* included, and the configured value itself from 10 on.
C25_IntervalClamped ==
    ReporterRunning =>
        /\ interval_secs >= metricsConfig.interval
        /\ interval_secs >= 10
        /\ interval_secs \in {metricsConfig.interval, 10}
        /\ metricsConfig.interval < 10 => interval_secs = 10
        /\ metricsConfig.interval >= 10 => interval_secs = metricsConfig.interval

\* The reporter was started with a configured interval of 0 and runs every 10 s.
C25_Witness ==
    /\ ReporterRunning
    /\ metricsConfig.interval = 0
    /\ interval_secs = 10

\* The Transaction records on the bus that hold a formatted transaction.
FormattedTransactions ==
    {i \in 1..Len(bus) : bus[i].key[2] = "signature" /\ bus[i].value # EmptyJson}

\* The update a record was made from.
UpdateOf(record) == CHOOSE m \in tbItems : m.id = record.id

\* C26: the record of a formatted transaction has the slot of its update, and its
\* epoch is the integer quotient of that slot by 432000: the epoch e with
\* e * 432000 <= slot < (e + 1) * 432000. Slot 431999 gives epoch 0, slot 432000
\* gives epoch 1, and over the slots drawn a larger slot never has a smaller epoch.
C26_SlotAndEpoch ==
    /\ \A i \in FormattedTransactions :
          LET slot == UpdateOf(bus[i]).slot
              value == bus[i].value
          IN  /\ value.slot = slot
              /\ value.epoch * 432000 <= slot
              /\ slot < (value.epoch + 1) * 432000
              /\ slot = 431999 => value.epoch = 0
              /\ slot = 432000 => value.epoch = 1
    /\ \A s1, s2 \in SlotSamples :
          s1 <= s2 => FormatTransaction(TransactionAt(s1, TRUE, TRUE)).value.epoch
                        <= FormatTransaction(TransactionAt(s2, TRUE, TRUE)).value.epoch

\* A transaction of slot 432000 was formatted and handed to the bus with epoch 1.
C26_Witness ==
    /\ FormattedTransactions # {}
    /\ \E i \in FormattedTransactions :
          /\ UpdateOf(bus[i]).slot = 432000
          /\ bus[i].value.slot = 432000
          /\ bus[i].value.epoch = 1

\* C28: from the moment a tick has read the counters, before its first report
\* returns and whatever its reports then do, the stored previous values are the
\* values that tick read; with counters that never go down, the deltas computed at
\* all ticks so far sum to the value read at the latest tick, so that a delta whose
\* report failed is in no later delta.
C28_SwapBeforeReports ==
    \A c \in CounterNames :
        /\ last[c] = readCur[c]
        /\ sumDeltas[c] = readCur[c]
        /\ delta[c] = readCur[c] - readPrev[c]

\* Two ticks have each computed a delta of 1 for the transactions counter; the
\* report that returned last, in the first of them, failed, and the second tick is
\* sending 1 again, not 2.
C28_Witness ==
    /\ lastFailed
    /\ rPc = "send"
    /\ rIdx = 1
    /\ readPrev["transactions"] = 1
    /\ readCur["transactions"] = 2
    /\ delta["transactions"] = 1
    /\ sumDeltas["transactions"] = 2
    /\ last["transactions"] = 2

====
